---- MODULE Spec2Model ----
(***************************************************************************)
(* Footnote syntax for markdown: the micromark tokenizer extension         *)
(* (footnote calls, inline notes, footnote definitions), its event         *)
(* resolvers and the mdast tree builder, as bundled in the plugin.         *)
(*                                                                         *)
(* Codes are integers as in the source; strings are sequences of           *)
(* character codes.  The host tokenizer (effects, attempt/check, the       *)
(* document and text dispatchers) is modelled at its boundary with the     *)
(* extension; every state function of the extension is one action.         *)
(***************************************************************************)
EXTENDS Integers, Sequences, FiniteSets, TLC

(***************************************************************************)
(* Character codes                                                         *)
(***************************************************************************)
Null == 0 - 100              \* JS null: end of input
carriageReturnLineFeed == -3
lineFeed == -4
carriageReturn == -5
horizontalTab == -2
virtualSpace == -1
space == 32
colon == 58
leftSquareBracket == 91
backslash == 92
rightSquareBracket == 93
caret == 94
LabelSizeMax == 999          \* `size > 999`
IndentSize == 4              \* tokenizeIndent: max 4 + 1, length === 4
chA == 65
chB == 66
cha == 97
chb == 98
chTheta == 952               \* U+03B8 GREEK SMALL LETTER THETA
chCapTheta == 920            \* U+0398 GREEK CAPITAL LETTER THETA
chThetaSymbol == 1012        \* U+03F4 GREEK CAPITAL THETA SYMBOL

markdownLineEnding(code) == code # Null /\ code < -2

markdownLineEndingOrSpace_bogus(code) == FALSE

markdownLineEndingOrSpace(code) == code # Null /\ (code < 0 \/ code = 32)

markdownSpace(code) == code = -2 \/ code = -1 \/ code = 32

(***************************************************************************)
(* Strings                                                                 *)
(***************************************************************************)
\* The host's serializeChunks: virtual codes back to characters.  The loop
\* over the chunks is evaluated by halves; atTab is the loop's flag that the
\* chunk before was a tab.
serializeChunk(chunk, expandTabs, atTab) ==
    CASE chunk = carriageReturn -> <<13>>
      [] chunk = lineFeed -> <<10>>
      [] chunk = carriageReturnLineFeed -> <<13, 10>>
      [] chunk = horizontalTab -> <<IF expandTabs THEN 32 ELSE 9>>
      [] chunk = virtualSpace -> IF ~expandTabs /\ atTab THEN << >> ELSE <<32>>
      [] OTHER -> <<chunk>>

RECURSIVE serializeChunks(_, _, _)
serializeChunks(chunks, expandTabs, atTab) ==
    IF chunks = << >> THEN << >>
    ELSE IF Len(chunks) = 1 THEN serializeChunk(chunks[1], expandTabs, atTab)
    ELSE LET mid == Len(chunks) \div 2
         IN  serializeChunks(SubSeq(chunks, 1, mid), expandTabs, atTab)
               \o serializeChunks(SubSeq(chunks, mid + 1, Len(chunks)), expandTabs,
                                  chunks[mid] = horizontalTab)

toLowerCase(c) ==
    CASE c >= 65 /\ c <= 90 -> c + 32
      [] c = chCapTheta \/ c = chThetaSymbol -> chTheta
      [] OTHER -> c

toUpperCase(c) ==
    CASE c >= 97 /\ c <= 122 -> c - 32
      [] c = chTheta -> chCapTheta
      [] OTHER -> c

isWs(c) == c \in {9, 10, 13, 32}

\* .replace(/[\t\n\r ]+/g, ' ')
\* Every maximal run of whitespace becomes one space; evaluated by halves, a
\* run that spans the cut counted once.
RECURSIVE collapse(_)
collapse(value) ==
    IF value = << >> THEN << >>
    ELSE IF Len(value) = 1 THEN (IF isWs(value[1]) THEN <<32>> ELSE value)
    ELSE LET mid == Len(value) \div 2
             left == collapse(SubSeq(value, 1, mid))
             right == collapse(SubSeq(value, mid + 1, Len(value)))
         IN  IF isWs(value[mid]) /\ isWs(value[mid + 1])
             THEN left \o Tail(right)
             ELSE left \o right

\* .replace(/^ | $/g, '')
trim(value) ==
    LET a == IF value # << >> /\ Head(value) = 32 THEN Tail(value) ELSE value
    IN  IF a # << >> /\ a[Len(a)] = 32 THEN SubSeq(a, 1, Len(a) - 1) ELSE a

normalizeIdentifier(value) ==
    LET t == trim(collapse(value))
    IN  [i \in 1..Len(t) |-> toUpperCase(toLowerCase(t[i]))]

StrLower(value) == [i \in 1..Len(value) |-> toLowerCase(value[i])]

includes(list, x) == \E i \in 1..Len(list) : list[i] = x

(***************************************************************************)
(* Bounds of the input families                                            *)
(***************************************************************************)
MaxText == 6                 \* codes of one text run
MaxNest == 5                 \* pieces of a text of notes and calls
MaxLabel == 1                \* label units of a generated definition or call
MaxDefs == 2                 \* definition lines of one document
MaxLines == 2                \* continuation lines of one definition
MaxIndentRun == 5            \* leading whitespace codes of a continuation line
MaxFold == 2                 \* label units where case and whitespace vary
MaxEsc == 2                  \* label units where brackets and backslashes vary
MaxBlank == 2                \* label units where whitespace varies
MaxChildren == 2             \* children of a serialized node
MaxChildLen == 3             \* characters of one serialized child
MaxMoveLen == 3              \* characters of one text the tracker moves past
MaxMoved == 5                \* characters the tracker moves past in all
MaxShift == 4                \* line shift added to a tracker
MaxSafeLen == 3              \* characters of a text given to safe
MaxPlugins == 2              \* entries of remarkPlugins before the first call
MaxCalls == 3                \* calls of activate and deactivate
LongMin == 997               \* shortest and longest label near the size cap
LongMax == 1001

(***************************************************************************)
(* State                                                                   *)
(***************************************************************************)
VARIABLES
    profile,          \* the family the document is drawn from
    options,          \* footnote$1(options)
    run,              \* number of tokenizer contexts finished
    input, pos,       \* codes read so far; index of the current code
    origin,           \* number of codes before the current context's chunk
    code, codeIdx,    \* argument of the pending state function, and its index
    awaiting,         \* the pending state function is called by the main loop
    pc,               \* the pending state function
    frames,           \* open attempt/check hooks
    events, tokens, tokenStack,
    resolveAllConstructs,
    parsers, self,    \* parser.footnotes of each parser; the parser in use
    containerState,
    size, data, identifier,     \* closure variables of the label tokenizers
    sp,               \* closure of factorySpace
    defOpen, paraOpen, lines,   \* document host: open definition, its lines
    cidx, stack, tree,          \* compiler: next event, open nodes, built nodes
    serNode,          \* to-markdown: the node handled, with the info passed in
    serPc,            \* to-markdown: position in the handler
    tracker,          \* to-markdown: tracker of the handler (line, column, lineShift)
    output,           \* to-markdown: `value` of the handler
    constructStack,   \* to-markdown: state.stack
    indexStack,       \* to-markdown: state.indexStack
    flowState,        \* to-markdown: locals of containerFlow or containerPhrasing
    returned,         \* to-markdown: what peek, the handler and move returned
    unsafe,           \* to-markdown: state.unsafe
    config,           \* to-markdown: the config safe is called with
    markdownRenderer, \* inkdrop: a markdown renderer is present
    remarkPlugins,    \* inkdrop: markdownRenderer.remarkPlugins
    calls             \* inkdrop: the lifecycle calls made, with the list each one found

vars == <<profile, options, run, input, origin, pos, code, codeIdx, awaiting, pc, frames,
          events, tokens, tokenStack, resolveAllConstructs, parsers, self,
          containerState, size, data, identifier, sp, defOpen, paraOpen, lines,
          cidx, stack, tree, serNode, serPc, tracker, output, constructStack,
          indexStack, flowState, returned, unsafe, config, markdownRenderer, remarkPlugins,
          calls>>

hostVars == <<unsafe, config, markdownRenderer, remarkPlugins, calls>>
serVars ==
    <<serNode, serPc, tracker, output, constructStack, indexStack, flowState, returned,
      hostVars>>
\* What neither the tokenizer nor the tree builder writes.
cfgVars == <<profile, options, self, serVars>>
streamVars == <<input, origin, pos, code, codeIdx>>
fxVars == <<events, tokens, tokenStack, pos>>
labelVars == <<size, data, identifier>>
docVars == <<defOpen, paraOpen, lines>>
treeVars == <<cidx, stack, tree>>

Parsers == {1, 2}
NoParser == [created |-> FALSE, footnotes |-> << >>]
EmptyContainerState == [initialBlankLine |-> FALSE, furtherBlankLines |-> FALSE]
NoSpace == [ok |-> "", type |-> "", max |-> 0, size |-> 0]

(***************************************************************************)
(* Host: effects                                                           *)
(***************************************************************************)
Fx == [events |-> events, tokens |-> tokens, tokenStack |-> tokenStack, pos |-> pos]

SetFx(fx) ==
    /\ events' = fx.events
    /\ tokens' = fx.tokens
    /\ tokenStack' = fx.tokenStack
    /\ pos' = fx.pos

NewToken(type, at) ==
    [type |-> type, start |-> at, end |-> 0, contentType |-> "", container |-> FALSE]

Enter(fx, type) ==
    LET id == Len(fx.tokens) + 1
    IN  [fx EXCEPT !.tokens = Append(@, NewToken(type, fx.pos)),
                   !.events = Append(@, [phase |-> "enter", id |-> id]),
                   !.tokenStack = Append(@, id)]

Exit(fx, type) ==
    LET id == fx.tokenStack[Len(fx.tokenStack)]
    IN  [fx EXCEPT !.tokens[id].end = fx.pos,
                   !.events = Append(@, [phase |-> "exit", id |-> id]),
                   !.tokenStack = SubSeq(@, 1, Len(@) - 1)]

Consume(fx) == [fx EXCEPT !.pos = @ + 1]

LastToken(fx) == fx.events[Len(fx.events)].id

sliceSerialize(token, expandTabs) ==
    serializeChunks(SubSeq(input, token.start, token.end - 1), expandTabs, FALSE)

TypeAt(evs, toks, i) == toks[evs[i].id].type

\* `return f`: the main loop calls f with the next code.
Return(f) == pc' = f /\ awaiting' = TRUE /\ UNCHANGED <<code, codeIdx>>

\* `return f(code)`: f is called at once with the same code.
Call(f) == pc' = f /\ awaiting' = FALSE /\ UNCHANGED <<code, codeIdx>>

At(f) == pc = f /\ ~awaiting

Store(fx) ==
    [pos |-> fx.pos, nEvents |-> Len(fx.events), nTokens |-> Len(fx.tokens),
     tokenStack |-> fx.tokenStack]

Restore(fx, info) ==
    [events |-> SubSeq(fx.events, 1, info.nEvents),
     tokens |-> SubSeq(fx.tokens, 1, info.nTokens),
     tokenStack |-> info.tokenStack,
     pos |-> info.pos]

\* self.parser.footnotes
Footnotes_bogus == parsers[1].footnotes

Footnotes == parsers[self].footnotes

Frame(kind, construct, okState, nokState, fx) ==
    [kind |-> kind, construct |-> construct, ok |-> okState, nok |-> nokState,
     info |-> Store(fx),
     before |-> [footnotes |-> Footnotes, containerState |-> containerState]]

Top == frames[Len(frames)]

\* effects.attempt(construct, ok, nok)(code) and effects.check(...)(code)
Hook(kind, construct, startState, okState, nokState) ==
    /\ frames' = Append(frames, Frame(kind, construct, okState, nokState, Fx))
    /\ Call(startState)

\* `return effects.check(...)` after effects of this state function: the hook
\* starts with the next code.
HookNext(kind, construct, startState, okState, nokState, fx) ==
    /\ frames' = Append(frames, Frame(kind, construct, okState, nokState, fx))
    /\ Return(startState)

\* Variables no state function of the extension writes.
Quiet == UNCHANGED <<cfgVars, run, input, origin, resolveAllConstructs, docVars, treeVars>>

(***************************************************************************)
(* Generic splice and resolveAll                                           *)
(***************************************************************************)
ChunkSize == 10000

\* the chunks all inserted at the same start
spliceChunks_bogus(list, start, items, chunkStart) ==
    SubSeq(list, 1, start) \o SubSeq(items, ChunkSize + 1, Len(items))
      \o SubSeq(items, 1, ChunkSize) \o SubSeq(list, start + 1, Len(list))

RECURSIVE spliceChunks(_, _, _, _)
spliceChunks(list, start, items, chunkStart) ==
    IF chunkStart >= Len(items) THEN list
    ELSE LET upto == IF chunkStart + ChunkSize < Len(items)
                     THEN chunkStart + ChunkSize ELSE Len(items)
             parameters == SubSeq(items, chunkStart + 1, upto)
             at == IF start > Len(list) THEN Len(list) ELSE start
         IN  spliceChunks(SubSeq(list, 1, at) \o parameters
                            \o SubSeq(list, at + 1, Len(list)),
                          start + ChunkSize, items, chunkStart + ChunkSize)

\* Array#splice(start, remove, ...items) on a 0-based start already in 0..length
nativeSplice(list, start, remove, items) ==
    LET n == Len(list)
        rm == IF remove > n - start THEN n - start ELSE remove
    IN  SubSeq(list, 1, start) \o items \o SubSeq(list, start + rm + 1, n)

splice(list, start0, remove0, items) ==
    LET end == Len(list)
        start == IF start0 < 0
                 THEN (IF -start0 > end THEN 0 ELSE end + start0)
                 ELSE (IF start0 > end THEN end ELSE start0)
        remove == IF remove0 > 0 THEN remove0 ELSE 0
    IN  IF Len(items) < ChunkSize
        THEN nativeSplice(list, start, remove, items)
        ELSE spliceChunks(IF remove # 0 THEN nativeSplice(list, start, remove, << >>)
                          ELSE list,
                          start, items, 0)

(***************************************************************************)
(* Resolvers.  An event list and the tokens it shares: [events, tokens].    *)
(***************************************************************************)
\* resolveAllNote: one pass, index advancing over the list as it shrinks.
RECURSIVE resolveAllNoteFrom(_, _, _)
resolveAllNoteFrom(evs, toks, index) ==
    LET startAt(i) == evs[i].phase = "enter" /\ TypeAt(evs, toks, i) = "inlineNoteStart"
    IN  IF \A i \in index..Len(evs) : ~startAt(i) THEN [events |-> evs, tokens |-> toks]
        ELSE LET next == CHOOSE i \in index..Len(evs) :
                             startAt(i) /\ \A j \in index..(i - 1) : ~startAt(j)
             IN  resolveAllNoteFrom(nativeSplice(evs, next, 4, << >>),
                                    [toks EXCEPT ![evs[next].id].type = "data"],
                                    next + 1)

resolveAllNote_skip(evs, toks) == [events |-> evs, tokens |-> toks]

resolveAllNote(evs, toks) == resolveAllNoteFrom(evs, toks, 1)

\* resolveAll(constructs, events, context): each distinct resolveAll once.
RECURSIVE resolveAllFrom(_, _, _, _)
resolveAllFrom(constructs, called, evs, toks) ==
    IF constructs = << >> THEN [events |-> evs, tokens |-> toks]
    ELSE LET resolve == Head(constructs).resolveAll
         IN  IF resolve = "resolveAllNote" /\ resolve \notin called
             THEN LET r == resolveAllNote(evs, toks)
                  IN  resolveAllFrom(Tail(constructs), called \cup {resolve},
                                     r.events, r.tokens)
             ELSE resolveAllFrom(Tail(constructs), called, evs, toks)

resolveAll(constructs, evs, toks) == resolveAllFrom(constructs, {}, evs, toks)

\* context.parser.constructs.insideSpan.null: the extension adds nothing to it.
insideSpanNull == << >>

\* The opening found by `while (index--)`: 0 when the scan runs out.
findOpening_first(evs, toks, index) ==
    CHOOSE i \in 1..index :
        /\ evs[i].phase = "enter" /\ TypeAt(evs, toks, i) = "inlineNoteStart"
        /\ \A j \in 1..(i - 1) :
              ~(evs[j].phase = "enter" /\ TypeAt(evs, toks, j) = "inlineNoteStart")

RECURSIVE findOpening(_, _, _)
findOpening(evs, toks, index) ==
    IF index < 1 THEN 0
    ELSE IF evs[index].phase = "enter" /\ TypeAt(evs, toks, index) = "inlineNoteStart"
         THEN index
         ELSE findOpening(evs, toks, index - 1)

resolveToNoteEnd(evs, toks) ==
    LET n == Len(evs)
        openIndex == findOpening(evs, toks, n - 4)
        gid == Len(toks) + 1
        tid == Len(toks) + 2
        group == [NewToken("inlineNote", toks[evs[openIndex].id].start)
                    EXCEPT !.end = toks[evs[n].id].end]
        text == [NewToken("inlineNoteText", toks[evs[openIndex + 4].id].end)
                    EXCEPT !.end = toks[evs[n - 2].id].start]
        toks2 == toks \o <<group, text>>
        inner == resolveAll(insideSpanNull, SubSeq(evs, openIndex + 6, n - 4), toks2)
        head == <<[phase |-> "enter", id |-> gid], evs[openIndex + 1],
                  evs[openIndex + 2], evs[openIndex + 3], evs[openIndex + 4],
                  [phase |-> "enter", id |-> tid]>>
        note == splice(head, Len(head), 0, inner.events)
                  \o <<[phase |-> "exit", id |-> tid], evs[n - 1], evs[n - 2],
                       [phase |-> "exit", id |-> gid]>>
    IN  [events |-> splice(evs, openIndex - 1, n - (openIndex - 1), note),
         tokens |-> inner.tokens]

(***************************************************************************)
(* footnote$1(options): the constructs registered per start code           *)
(***************************************************************************)
footnoteExtension_bogus(opts) ==
    [document |-> {<<leftSquareBracket, "definition">>},
     text |-> {<<leftSquareBracket, "call">>, <<rightSquareBracket, "noteEnd">>,
               <<caret, "noteStart">>}]

footnoteExtension(opts) ==
    [document |-> {<<leftSquareBracket, "definition">>},
     text |-> {<<leftSquareBracket, "call">>}
              \cup (IF opts.inlineNotes
                    THEN {<<rightSquareBracket, "noteEnd">>, <<caret, "noteStart">>}
                    ELSE {})]

ConstructResolveAll(construct) ==
    IF construct \in {"noteStart", "noteEnd"} THEN "resolveAllNote" ELSE "none"

TokenizerOf(construct) ==
    CASE construct = "call" -> "tokenizeFootnoteCall"
      [] construct = "noteStart" -> "tokenizeNoteStart_start"
      [] construct = "noteEnd" -> "tokenizeNoteEnd_start"
      [] construct = "definition" -> "tokenizeDefinitionStart"
      [] construct = "continuation" -> "tokenizeDefinitionContinuation"
      [] construct = "indent" -> "tokenizeIndent"
      [] construct = "blankLine" -> "tokenizeBlankLine_start"

(***************************************************************************)
(* tokenizeFootnoteCall                                                    *)
(***************************************************************************)
tokenizeFootnoteCall ==
    /\ At("tokenizeFootnoteCall")
    /\ parsers' = [parsers EXCEPT ![self].created = TRUE]
    /\ size' = 0 /\ data' = FALSE /\ UNCHANGED identifier
    /\ Call("tokenizeFootnoteCall_start")
    /\ UNCHANGED <<fxVars, frames, containerState, sp>>
    /\ Quiet

tokenizeFootnoteCall_start ==
    /\ At("tokenizeFootnoteCall_start")
    /\ SetFx(Exit(Consume(Enter(Enter(Fx, "footnoteCall"), "footnoteCallLabelMarker")),
                  "footnoteCallLabelMarker"))
    /\ Return("tokenizeFootnoteCall_callStart")
    /\ UNCHANGED <<frames, parsers, containerState, labelVars, sp>>
    /\ Quiet

tokenizeFootnoteCall_callStart ==
    /\ At("tokenizeFootnoteCall_callStart")
    /\ IF code # caret
       THEN Call("nok") /\ UNCHANGED fxVars
       ELSE LET f1 == Exit(Consume(Enter(Fx, "footnoteCallMarker")), "footnoteCallMarker")
                f2 == Enter(Enter(f1, "footnoteCallString"), "chunkString")
                f3 == [f2 EXCEPT !.tokens[Len(f2.tokens)].contentType = "string"]
            IN  SetFx(f3) /\ Return("tokenizeFootnoteCall_callData")
    /\ UNCHANGED <<frames, parsers, containerState, labelVars, sp>>
    /\ Quiet

\* defined.includes(normalizeIdentifier(self.sliceSerialize(token)))
callDefined_bogus(token) == TRUE

callDefined(token) ==
    includes(Footnotes, normalizeIdentifier(sliceSerialize(token, FALSE)))

\* `size++ > 999` of callData, on the value before the increment
callTooLong(n) == n > LabelSizeMax

tokenizeFootnoteCall_callData ==
    /\ At("tokenizeFootnoteCall_callData")
    /\ LET counted == ~(code = Null \/ code = leftSquareBracket)
           size1 == IF counted THEN size + 1 ELSE size
       IN  /\ size' = size1
           /\ IF code = Null \/ code = leftSquareBracket \/ callTooLong(size)
              THEN Call("nok") /\ UNCHANGED <<fxVars, data>>
              ELSE IF code = rightSquareBracket
                   THEN IF ~data
                        THEN Call("nok") /\ UNCHANGED <<fxVars, data>>
                        ELSE LET f1 == Exit(Exit(Fx, "chunkString"), "footnoteCallString")
                                 token == f1.tokens[LastToken(f1)]
                             IN  /\ SetFx(f1)
                                 /\ UNCHANGED data
                                 /\ IF callDefined(token)
                                    THEN Call("tokenizeFootnoteCall_end")
                                    ELSE Call("nok")
                   ELSE /\ SetFx(Consume(Fx))
                        /\ data' = (data \/ ~markdownLineEndingOrSpace(code))
                        /\ IF code = backslash
                           THEN Return("tokenizeFootnoteCall_callEscape")
                           ELSE Return("tokenizeFootnoteCall_callData")
    /\ UNCHANGED <<frames, parsers, containerState, identifier, sp>>
    /\ Quiet

\* `code === 91 || code === 92 || code === 93` of callEscape and labelEscape
escapable_bogus(c) == c \in {leftSquareBracket, rightSquareBracket}

escapable(c) == c \in {leftSquareBracket, backslash, rightSquareBracket}

tokenizeFootnoteCall_callEscape ==
    /\ At("tokenizeFootnoteCall_callEscape")
    /\ IF escapable(code)
       THEN /\ SetFx(Consume(Fx))
            /\ size' = size + 1
            /\ Return("tokenizeFootnoteCall_callData")
       ELSE /\ Call("tokenizeFootnoteCall_callData")
            /\ UNCHANGED <<fxVars, size>>
    /\ UNCHANGED <<frames, parsers, containerState, data, identifier, sp>>
    /\ Quiet

tokenizeFootnoteCall_end ==
    /\ At("tokenizeFootnoteCall_end")
    /\ SetFx(Exit(Exit(Consume(Enter(Fx, "footnoteCallLabelMarker")),
                       "footnoteCallLabelMarker"), "footnoteCall"))
    /\ Return("ok")
    /\ UNCHANGED <<frames, parsers, containerState, labelVars, sp>>
    /\ Quiet

(***************************************************************************)
(* tokenizeNoteStart, tokenizeNoteEnd                                      *)
(***************************************************************************)
tokenizeNoteStart_start ==
    /\ At("tokenizeNoteStart_start")
    /\ SetFx(Exit(Consume(Enter(Enter(Fx, "inlineNoteStart"), "inlineNoteMarker")),
                  "inlineNoteMarker"))
    /\ Return("tokenizeNoteStart_noteStart")
    /\ UNCHANGED <<frames, parsers, containerState, labelVars, sp>>
    /\ Quiet

tokenizeNoteStart_noteStart ==
    /\ At("tokenizeNoteStart_noteStart")
    /\ IF code # leftSquareBracket
       THEN Call("nok") /\ UNCHANGED fxVars
       ELSE /\ SetFx(Exit(Exit(Consume(Enter(Fx, "inlineNoteStartMarker")),
                               "inlineNoteStartMarker"), "inlineNoteStart"))
            /\ Return("ok")
    /\ UNCHANGED <<frames, parsers, containerState, labelVars, sp>>
    /\ Quiet

\* the backward scan of tokenizeNoteEnd.start over self.events
hasStart_bogus(evs, toks) == TRUE

hasStart(evs, toks) ==
    \E index \in 1..Len(evs) : TypeAt(evs, toks, index) = "inlineNoteStart"

tokenizeNoteEnd_start ==
    /\ At("tokenizeNoteEnd_start")
    /\ IF ~hasStart(events, tokens)
       THEN Call("nok") /\ UNCHANGED fxVars
       ELSE /\ SetFx(Exit(Exit(Consume(Enter(Enter(Fx, "inlineNoteEnd"),
                                             "inlineNoteEndMarker")),
                               "inlineNoteEndMarker"), "inlineNoteEnd"))
            /\ Return("ok")
    /\ UNCHANGED <<frames, parsers, containerState, labelVars, sp>>
    /\ Quiet

(***************************************************************************)
(* factorySpace, tokenizeBlankLine                                         *)
(***************************************************************************)
factorySpace(okState, type, max) == [ok |-> okState, type |-> type, max |-> max, size |-> 0]

underLimit_bogus(n, max) == max = 0 \/ n < max

\* `size++ < limit` with limit = max ? max - 1 : Infinity (max 0: not given)
underLimit(n, max) == max = 0 \/ n < max - 1

factorySpace_start ==
    /\ At("factorySpace_start")
    /\ IF markdownSpace(code)
       THEN SetFx(Enter(Fx, sp.type)) /\ Call("factorySpace_prefix")
       ELSE UNCHANGED fxVars /\ Call(sp.ok)
    /\ UNCHANGED <<frames, parsers, containerState, labelVars, sp>>
    /\ Quiet

factorySpace_prefix ==
    /\ At("factorySpace_prefix")
    /\ IF markdownSpace(code)
       THEN /\ sp' = [sp EXCEPT !.size = @ + 1]
            /\ IF underLimit(sp.size, sp.max)
               THEN SetFx(Consume(Fx)) /\ Return("factorySpace_prefix")
               ELSE SetFx(Exit(Fx, sp.type)) /\ Call(sp.ok)
       ELSE /\ sp' = sp
            /\ SetFx(Exit(Fx, sp.type)) /\ Call(sp.ok)
    /\ UNCHANGED <<frames, parsers, containerState, labelVars>>
    /\ Quiet

tokenizeBlankLine_start ==
    /\ At("tokenizeBlankLine_start")
    /\ IF markdownSpace(code)
       THEN /\ sp' = factorySpace("tokenizeBlankLine_after", "linePrefix", 0)
            /\ Call("factorySpace_start")
       ELSE /\ sp' = sp
            /\ Call("tokenizeBlankLine_after")
    /\ UNCHANGED <<fxVars, frames, parsers, containerState, labelVars>>
    /\ Quiet

tokenizeBlankLine_after_bogus ==
    /\ At("tokenizeBlankLine_after")
    /\ Call("ok")
    /\ UNCHANGED <<fxVars, frames, parsers, containerState, labelVars, sp>>
    /\ Quiet

tokenizeBlankLine_after ==
    /\ At("tokenizeBlankLine_after")
    /\ IF code = Null \/ markdownLineEnding(code) THEN Call("ok") ELSE Call("nok")
    /\ UNCHANGED <<fxVars, frames, parsers, containerState, labelVars, sp>>
    /\ Quiet

(***************************************************************************)
(* tokenizeDefinitionStart                                                 *)
(***************************************************************************)
tokenizeDefinitionStart ==
    /\ At("tokenizeDefinitionStart")
    /\ parsers' = [parsers EXCEPT ![self].created = TRUE]
    /\ size' = 0 /\ data' = FALSE /\ identifier' = << >>
    /\ Call("tokenizeDefinitionStart_start")
    /\ UNCHANGED <<fxVars, frames, containerState, sp>>
    /\ Quiet

tokenizeDefinitionStart_start ==
    /\ At("tokenizeDefinitionStart_start")
    /\ LET f1 == Enter(Fx, "footnoteDefinition")
           f2 == [f1 EXCEPT !.tokens[Len(f1.tokens)].container = TRUE]
           f3 == Enter(Enter(f2, "footnoteDefinitionLabel"), "footnoteDefinitionLabelMarker")
       IN  SetFx(Exit(Consume(f3), "footnoteDefinitionLabelMarker"))
    /\ Return("tokenizeDefinitionStart_labelStart")
    /\ UNCHANGED <<frames, parsers, containerState, labelVars, sp>>
    /\ Quiet

tokenizeDefinitionStart_labelStart ==
    /\ At("tokenizeDefinitionStart_labelStart")
    /\ IF code # caret
       THEN Call("nok") /\ UNCHANGED fxVars
       ELSE /\ SetFx(Enter(Exit(Consume(Enter(Fx, "footnoteDefinitionMarker")),
                                "footnoteDefinitionMarker"),
                           "footnoteDefinitionLabelString"))
            /\ Return("tokenizeDefinitionStart_atBreak")
    /\ UNCHANGED <<frames, parsers, containerState, labelVars, sp>>
    /\ Quiet

\* `size > 999` of atBreak and label
labelTooLong_bogus(n) == n > LabelSizeMax + 1

labelTooLong(n) == n > LabelSizeMax

tokenizeDefinitionStart_atBreak ==
    /\ At("tokenizeDefinitionStart_atBreak")
    /\ IF code = Null \/ code = leftSquareBracket \/ labelTooLong(size)
       THEN Call("nok") /\ UNCHANGED <<fxVars, labelVars>>
       ELSE IF code = rightSquareBracket
            THEN IF ~data
                 THEN Call("nok") /\ UNCHANGED <<fxVars, labelVars>>
                 ELSE LET f1 == Exit(Fx, "footnoteDefinitionLabelString")
                          token == f1.tokens[LastToken(f1)]
                          f2 == Exit(Consume(Enter(f1, "footnoteDefinitionLabelMarker")),
                                     "footnoteDefinitionLabelMarker")
                      IN  /\ identifier' = normalizeIdentifier(sliceSerialize(token, FALSE))
                          /\ SetFx(Exit(f2, "footnoteDefinitionLabel"))
                          /\ UNCHANGED <<size, data>>
                          /\ Return("tokenizeDefinitionStart_labelAfter")
            ELSE IF markdownLineEnding(code)
                 THEN /\ SetFx(Exit(Consume(Enter(Fx, "lineEnding")), "lineEnding"))
                      /\ size' = size + 1
                      /\ UNCHANGED <<data, identifier>>
                      /\ Return("tokenizeDefinitionStart_atBreak")
                 ELSE LET f1 == Enter(Fx, "chunkString")
                      IN  /\ SetFx([f1 EXCEPT !.tokens[Len(f1.tokens)].contentType = "string"])
                          /\ UNCHANGED labelVars
                          /\ Call("tokenizeDefinitionStart_label")
    /\ UNCHANGED <<frames, parsers, containerState, sp>>
    /\ Quiet

tokenizeDefinitionStart_label ==
    /\ At("tokenizeDefinitionStart_label")
    /\ IF \/ code = Null \/ markdownLineEnding(code) \/ code = leftSquareBracket
          \/ code = rightSquareBracket \/ labelTooLong(size)
       THEN /\ SetFx(Exit(Fx, "chunkString"))
            /\ UNCHANGED labelVars
            /\ Call("tokenizeDefinitionStart_atBreak")
       ELSE /\ data' = (data \/ ~markdownLineEndingOrSpace(code))
            /\ size' = size + 1
            /\ UNCHANGED identifier
            /\ SetFx(Consume(Fx))
            /\ IF code = backslash
               THEN Return("tokenizeDefinitionStart_labelEscape")
               ELSE Return("tokenizeDefinitionStart_label")
    /\ UNCHANGED <<frames, parsers, containerState, sp>>
    /\ Quiet

tokenizeDefinitionStart_labelEscape ==
    /\ At("tokenizeDefinitionStart_labelEscape")
    /\ IF escapable(code)
       THEN /\ SetFx(Consume(Fx))
            /\ size' = size + 1
            /\ Return("tokenizeDefinitionStart_label")
       ELSE /\ Call("tokenizeDefinitionStart_label")
            /\ UNCHANGED <<fxVars, size>>
    /\ UNCHANGED <<frames, parsers, containerState, data, identifier, sp>>
    /\ Quiet

tokenizeDefinitionStart_labelAfter ==
    /\ At("tokenizeDefinitionStart_labelAfter")
    /\ IF code # colon
       THEN Call("nok") /\ UNCHANGED <<fxVars, frames>>
       ELSE LET f1 == Exit(Consume(Enter(Fx, "definitionMarker")), "definitionMarker")
            IN  /\ SetFx(f1)
                /\ HookNext("check", "blankLine", TokenizerOf("blankLine"),
                            "tokenizeDefinitionStart_onBlank",
                            "tokenizeDefinitionStart_nonBlank", f1)
    /\ UNCHANGED <<parsers, containerState, labelVars, sp>>
    /\ Quiet

tokenizeDefinitionStart_onBlank ==
    /\ At("tokenizeDefinitionStart_onBlank")
    /\ containerState' = [containerState EXCEPT !.initialBlankLine = TRUE]
    /\ Call("tokenizeDefinitionStart_done")
    /\ UNCHANGED <<fxVars, frames, parsers, labelVars, sp>>
    /\ Quiet

tokenizeDefinitionStart_nonBlank ==
    /\ At("tokenizeDefinitionStart_nonBlank")
    /\ IF markdownSpace(code)
       THEN SetFx(Exit(Consume(Enter(Fx, "footnoteDefinitionWhitespace")),
                       "footnoteDefinitionWhitespace"))
       ELSE UNCHANGED fxVars
    /\ Call("tokenizeDefinitionStart_done")
    /\ UNCHANGED <<frames, parsers, containerState, labelVars, sp>>
    /\ Quiet

\* if (!defined.includes(identifier)) defined.push(identifier)
register_bogus(defined, id) == Append(defined, id)

register_skip(defined, id) == defined

register(defined, id) == IF ~includes(defined, id) THEN Append(defined, id) ELSE defined

tokenizeDefinitionStart_done ==
    /\ At("tokenizeDefinitionStart_done")
    /\ parsers' = [parsers EXCEPT ![self].footnotes = register(@, identifier)]
    /\ Call("ok")
    /\ UNCHANGED <<fxVars, frames, containerState, labelVars, sp>>
    /\ Quiet

(***************************************************************************)
(* tokenizeDefinitionContinuation, footnoteDefinitionEnd, tokenizeIndent   *)
(***************************************************************************)
tokenizeDefinitionContinuation ==
    /\ At("tokenizeDefinitionContinuation")
    /\ Hook("check", "blankLine", TokenizerOf("blankLine"),
            "tokenizeDefinitionContinuation_onBlank",
            "tokenizeDefinitionContinuation_notBlank")
    /\ UNCHANGED <<fxVars, parsers, containerState, labelVars, sp>>
    /\ Quiet

tokenizeDefinitionContinuation_onBlank ==
    /\ At("tokenizeDefinitionContinuation_onBlank")
    /\ containerState' = IF containerState.initialBlankLine
                         THEN [containerState EXCEPT !.furtherBlankLines = TRUE]
                         ELSE containerState
    /\ Call("ok")
    /\ UNCHANGED <<fxVars, frames, parsers, labelVars, sp>>
    /\ Quiet

\* the rejection test of notBlank
closedOrFlush_bogus(state, c) == ~markdownSpace(c)

closedOrFlush(state, c) == state.furtherBlankLines \/ ~markdownSpace(c)

tokenizeDefinitionContinuation_notBlank ==
    /\ At("tokenizeDefinitionContinuation_notBlank")
    /\ IF closedOrFlush(containerState, code)
       THEN Call("nok") /\ UNCHANGED <<frames, containerState>>
       ELSE /\ containerState' = EmptyContainerState
            /\ frames' = Append(frames,
                               [Frame("attempt", "indent", "ok", "nok", Fx)
                                  EXCEPT !.before.containerState = EmptyContainerState])
            /\ Call(TokenizerOf("indent"))
    /\ UNCHANGED <<fxVars, parsers, labelVars, sp>>
    /\ Quiet

footnoteDefinitionEnd(fx) == Exit(fx, "footnoteDefinition")

tokenizeIndent ==
    /\ At("tokenizeIndent")
    /\ sp' = factorySpace("tokenizeIndent_afterPrefix", "footnoteDefinitionIndent",
                          IndentSize + 1)
    /\ Call("factorySpace_start")
    /\ UNCHANGED <<fxVars, frames, parsers, containerState, labelVars>>
    /\ Quiet

\* the test of afterPrefix on the last event
indented_bogus(evs, toks) ==
    /\ evs # << >>
    /\ TypeAt(evs, toks, Len(evs)) = "footnoteDefinitionIndent"

indented(evs, toks) ==
    /\ evs # << >>
    /\ TypeAt(evs, toks, Len(evs)) = "footnoteDefinitionIndent"
    /\ Len(sliceSerialize(toks[evs[Len(evs)].id], TRUE)) = IndentSize

tokenizeIndent_afterPrefix ==
    /\ At("tokenizeIndent_afterPrefix")
    /\ IF indented(events, tokens) THEN Call("ok") ELSE Call("nok")
    /\ UNCHANGED <<fxVars, frames, parsers, containerState, labelVars, sp>>
    /\ Quiet

(***************************************************************************)
(* Host: main loop, attempt/check hooks, text dispatcher                   *)
(***************************************************************************)
\* The contexts tokenized for one document of each family, in order.
Program ==
    CASE profile = "note" -> <<"text">>
      [] profile = "reg" -> <<"document", "text">>
      [] profile = "fold" -> <<"document", "text">>
      [] profile = "long" -> <<"document", "text">>
      [] profile = "cont" -> <<"document">>
      [] profile = "esc" -> <<"document", "text">>
      [] profile = "blank" -> <<"document", "text">>
      [] profile = "capDocument" -> <<"document">>
      [] profile = "capText" -> <<"document", "text">>
      [] profile = "nest" -> <<"document", "text">>

Context == IF run < Len(Program) THEN Program[run + 1] ELSE "none"

(***************************************************************************)
(* The source: the codes that may follow the codes read so far.  Each      *)
(* family is a prefix-closed set of documents.                             *)
(***************************************************************************)
IsEol(c) == c \in {lineFeed, carriageReturn, carriageReturnLineFeed}

RECURSIVE CurLine(_)
CurLine(seq) ==
    IF seq = << >> \/ IsEol(seq[Len(seq)]) THEN << >>
    ELSE Append(CurLine(SubSeq(seq, 1, Len(seq) - 1)), seq[Len(seq)])

NumEol(seq) == Cardinality({i \in 1..Len(seq) : IsEol(seq[i])})

FirstIndex(seq, c) ==
    IF \E i \in 1..Len(seq) : seq[i] = c
    THEN CHOOSE i \in 1..Len(seq) : seq[i] = c /\ \A j \in 1..(i - 1) : seq[j] # c
    ELSE 0

FoldLetters == {cha, chA, chTheta, chThetaSymbol, space, lineFeed}

LabelCodes(lab, ctx) ==
    CASE profile = "reg" ->
           (IF Len(lab) < MaxLabel THEN {cha, chb} ELSE {})
             \cup (IF lab # << >> THEN {rightSquareBracket} ELSE {})
      [] profile = "fold" ->
           (IF Len(lab) < MaxFold THEN FoldLetters ELSE {})
             \cup (IF lab # << >> THEN {rightSquareBracket} ELSE {})
      [] profile = "long" ->
           (IF Len(lab) < LongMax /\ (lab = << >> \/ lab[Len(lab)] # space)
            THEN {cha} ELSE {})
             \cup (IF ctx = "text" /\ Len(lab) >= LongMin /\ Len(lab) < LongMax
                   THEN {space} ELSE {})
             \cup (IF Len(lab) >= LongMin THEN {rightSquareBracket} ELSE {})

\* A line `[^label]:` of a document, or a call `[^label]` of a text run.
LabelledCodes(unit, ctx) ==
    LET close == FirstIndex(unit, rightSquareBracket)
        rest == SubSeq(unit, close + 1, Len(unit))
    IN  CASE unit = << >> -> {leftSquareBracket}
          [] Len(unit) = 1 -> {caret}
          [] close = 0 -> LabelCodes(SubSeq(unit, 3, Len(unit)), ctx)
          [] ctx = "text" -> {Null}
          [] rest = << >> -> {colon} \cup (IF profile = "reg" THEN {cha} ELSE {})
          [] rest = <<colon>> ->
               {lineFeed} \cup (IF profile = "reg" THEN {cha} ELSE {})
          [] IsEol(rest[Len(rest)]) -> {Null}
          [] OTHER -> {lineFeed}

Chunk == SubSeq(input, origin + 1, Len(input))

ContScript == <<leftSquareBracket, caret, cha, rightSquareBracket, colon>>

\* `[^a]:` and then lines of leading whitespace and at most one letter; the
\* definition's own line has at most one space after the colon; the document
\* ends at the start of a line.
ContCodes ==
    IF Len(Chunk) < Len(ContScript) THEN {ContScript[Len(Chunk) + 1]}
    ELSE LET line == CurLine(Chunk)
             nl == NumEol(Chunk)
             body == IF nl = 0 THEN SubSeq(line, Len(ContScript) + 1, Len(line)) ELSE line
             allWs == \A i \in 1..Len(body) : markdownSpace(body[i])
             inTab == /\ body # << >>
                      /\ body[Len(body)] \in {horizontalTab, virtualSpace}
                      /\ Len(line) % 4 # 0
         IN  IF inTab THEN {virtualSpace}
             ELSE IF nl > MaxLines THEN {Null}
             ELSE IF ~allWs THEN {lineFeed}
             ELSE (IF Len(body) < (IF nl = 0 THEN 1 ELSE MaxIndentRun) THEN {space} ELSE {})
                    \cup (IF body = << >> /\ nl > 0 THEN {horizontalTab} ELSE {})
                    \cup (IF body = << >> THEN {Null} ELSE {})
                    \cup {cha, lineFeed}

EscLetters == {cha, backslash, leftSquareBracket, rightSquareBracket}

\* `[^`, up to MaxEsc codes over a \ [ ] and a `]`; the input may end at any
\* point, and in a document `:` and a line ending may follow a `]`.
EscCodes(ctx) ==
    LET unit == Chunk
        k == Len(unit) - 2
        last == unit[Len(unit)]
    IN  CASE unit = << >> -> {leftSquareBracket}
          [] Len(unit) = 1 -> {caret}
          [] last = lineFeed -> {Null}
          [] last = colon -> {lineFeed}
          [] OTHER ->
               (IF k < MaxEsc THEN EscLetters ELSE {})
                 \cup (IF k = MaxEsc THEN {rightSquareBracket} ELSE {})
                 \cup (IF ctx = "document" /\ k >= 1 /\ last = rightSquareBracket
                       THEN {colon} ELSE {})
                 \cup {Null}

BlankLetters == {space, horizontalTab, lineFeed, cha}

\* `[^`, up to MaxBlank units over space, tab, line ending and a, and `]`; a
\* tab is followed by the virtual spaces that fill it up to 4 columns.
BlankCodes(ctx) ==
    LET unit == Chunk
        close == FirstIndex(unit, rightSquareBracket)
        rest == SubSeq(unit, close + 1, Len(unit))
        units == Cardinality({i \in 3..Len(unit) : unit[i] # virtualSpace})
        inTab == /\ unit[Len(unit)] \in {horizontalTab, virtualSpace}
                 /\ Len(CurLine(unit)) % 4 # 0
    IN  CASE unit = << >> -> {leftSquareBracket}
          [] Len(unit) = 1 -> {caret}
          [] close = 0 ->
               IF inTab THEN {virtualSpace}
               ELSE (IF units < MaxBlank THEN BlankLetters ELSE {})
                      \cup {rightSquareBracket}
          [] ctx = "text" -> {Null}
          [] rest = << >> -> {colon}
          [] rest = <<colon>> -> {lineFeed}
          [] OTHER -> {Null}

CapLetters(ctx) == IF ctx = "text" THEN {lineFeed} ELSE {lineFeed, space}

CapMin == LongMax - 2

\* Where the label of `window` closes: the index of its first unescaped `]`,
\* -1 when the end of input comes first, 0 when it is open.
RECURSIVE CapScan(_, _, _)
CapScan(window, i, escaped) ==
    IF i > Len(window) THEN 0
    ELSE IF escaped /\ window[i] \in {backslash, rightSquareBracket}
         THEN CapScan(window, i + 1, FALSE)
         ELSE IF window[i] = Null THEN -1
              ELSE IF window[i] = rightSquareBracket THEN i
                   ELSE CapScan(window, i + 1, window[i] = backslash)

\* `[^a`, a run of line endings or of spaces up to CapMin label codes, and
\* then one code over it, backslash and `]`, one more, and a third after an
\* escape.  The input may end at the first of these codes, after a backslash
\* and after the last; in a document `:` and a line ending follow the `]`.
CapCodes(ctx) ==
    LET unit == Chunk
        k == Len(unit) - 2
        window == SubSeq(unit, CapMin + 3, Len(unit))
        close == CapScan(window, 1, FALSE)
        rest == SubSeq(window, close + 1, Len(window))
        last == unit[Len(unit)]
        letters == CASE k = CapMin -> {unit[4], backslash, rightSquareBracket}
                     [] k = CapMin + 1 /\ last = backslash -> {backslash, rightSquareBracket}
                     [] k = CapMin + 1 -> {unit[4], rightSquareBracket}
                     [] k = CapMin + 2 /\ window[1] = backslash ->
                          {unit[4], rightSquareBracket}
                     [] OTHER -> {}
    IN  CASE unit = << >> -> {leftSquareBracket}
          [] Len(unit) = 1 -> {caret}
          [] k = 0 -> {cha}
          [] k = 1 -> CapLetters(ctx)
          [] k < CapMin -> {unit[4]}
          [] close = 0 ->
               letters \cup (IF k = CapMin \/ last = backslash \/ letters = {}
                             THEN {Null} ELSE {})
          [] close = -1 -> {Null}
          [] ctx = "text" -> {Null}
          [] rest = << >> -> {colon}
          [] rest = <<colon>> -> {lineFeed}
          [] OTHER -> {Null}

\* The document before the text of a call at the cap: `[^a]:` and a line
\* ending, which defines the identifier of `a` and a run of whitespace.
CapDefinition == <<leftSquareBracket, caret, cha, rightSquareBracket, colon, lineFeed>>

\* The pieces of a text with notes and calls: `^[`, `[^a]`, `]` and `a`.
NestPieces ==
    {<<caret, leftSquareBracket>>, <<leftSquareBracket, caret, cha, rightSquareBracket>>,
     <<rightSquareBracket>>, <<cha>>}

\* The whole pieces of a text and the codes its last piece still lacks.
RECURSIVE NestRest(_, _)
NestRest(chunk, n) ==
    IF chunk = << >> THEN [pieces |-> n, pending |-> << >>]
    ELSE LET piece == CHOOSE t \in NestPieces : t[1] = chunk[1]
         IN  IF Len(chunk) >= Len(piece)
             THEN NestRest(SubSeq(chunk, Len(piece) + 1, Len(chunk)), n + 1)
             ELSE [pieces |-> n, pending |-> SubSeq(piece, Len(chunk) + 1, Len(piece))]

\* A text of at most MaxNest pieces; it may end after any whole piece.
NestCodes ==
    LET r == NestRest(Chunk, 0)
    IN  IF r.pending # << >> THEN {r.pending[1]}
        ELSE (IF r.pieces < MaxNest THEN {t[1] : t \in NestPieces} ELSE {}) \cup {Null}

DocCodes ==
    CASE profile = "cont" -> ContCodes
      [] profile = "capDocument" -> CapCodes("document")
      [] profile \in {"capText", "nest"} ->
           IF Len(Chunk) < Len(CapDefinition) THEN {CapDefinition[Len(Chunk) + 1]}
           ELSE {Null}
      [] profile = "blank" -> BlankCodes("document")
      [] profile = "esc" -> EscCodes("document")
      [] profile = "reg" ->
           IF CurLine(Chunk) = << >>
           THEN (IF NumEol(Chunk) < MaxDefs THEN {leftSquareBracket} ELSE {}) \cup {Null}
           ELSE LabelledCodes(CurLine(Chunk), "document")
      [] OTHER -> LabelledCodes(Chunk, "document")

TextCodes ==
    CASE profile = "note" ->
           IF Len(Chunk) < MaxText
           THEN {caret, leftSquareBracket, rightSquareBracket, cha, Null}
           ELSE {Null}
      [] profile = "esc" -> EscCodes("text")
      [] profile = "blank" -> BlankCodes("text")
      [] profile = "capText" -> CapCodes("text")
      [] profile = "nest" -> NestCodes
      [] OTHER -> LabelledCodes(Chunk, "text")

SourceCodes == IF Context = "text" THEN TextCodes ELSE DocCodes

Go ==
    /\ awaiting
    /\ pc \notin {"start", "end"}
    /\ IF pos <= Len(input)
       THEN code' = input[pos] /\ UNCHANGED input
       ELSE \E c \in SourceCodes : input' = Append(input, c) /\ code' = c
    /\ codeIdx' = pos
    /\ awaiting' = FALSE
    /\ UNCHANGED <<cfgVars, run, origin, pos, pc, frames, events, tokens, tokenStack,
                   resolveAllConstructs, parsers, containerState, labelVars, sp,
                   docVars, treeVars>>

\* addResult: remember a construct with a resolveAll, run its resolveTo.
ok ==
    /\ At("ok")
    /\ frames # << >>
    /\ LET fr == Top
           fx1 == IF fr.kind = "check" THEN Restore(Fx, fr.info) ELSE Fx
           resolved == IF fr.kind = "attempt" /\ fr.construct = "noteEnd"
                       THEN resolveToNoteEnd(fx1.events, fx1.tokens)
                       ELSE [events |-> fx1.events, tokens |-> fx1.tokens]
       IN  /\ frames' = SubSeq(frames, 1, Len(frames) - 1)
           /\ events' = resolved.events
           /\ tokens' = resolved.tokens
           /\ tokenStack' = fx1.tokenStack
           /\ pos' = fx1.pos
           /\ resolveAllConstructs' =
                 IF /\ fr.kind = "attempt"
                    /\ ConstructResolveAll(fr.construct) # "none"
                    /\ ~includes(resolveAllConstructs, fr.construct)
                 THEN Append(resolveAllConstructs, fr.construct)
                 ELSE resolveAllConstructs
           /\ Return(fr.ok)
    /\ UNCHANGED <<cfgVars, run, input, origin, parsers, containerState, labelVars,
                   sp, docVars, treeVars>>

nok ==
    /\ At("nok")
    /\ frames # << >>
    /\ SetFx(Restore(Fx, Top.info))
    /\ frames' = SubSeq(frames, 1, Len(frames) - 1)
    /\ Return(Top.nok)
    /\ UNCHANGED <<cfgVars, run, input, origin, resolveAllConstructs, parsers,
                   containerState, labelVars, sp, docVars, treeVars>>

\* A new tokenizer context: its chunk starts after the codes read so far.
ResetStream ==
    /\ input' = input /\ origin' = Len(input) /\ pos' = Len(input) + 1
    /\ events' = << >> /\ tokens' = << >> /\ tokenStack' = << >>
    /\ resolveAllConstructs' = << >>
    /\ frames' = << >>
    /\ UNCHANGED <<code, codeIdx>>

beginText ==
    /\ pc = "start"
    /\ run < Len(Program) /\ Program[run + 1] = "text"
    /\ ResetStream
    /\ pc' = "text" /\ awaiting' = TRUE
    /\ UNCHANGED <<cfgVars, run, parsers, containerState, labelVars, sp,
                   docVars, treeVars>>

text ==
    /\ At("text")
    /\ IF code = Null
       THEN Call("textEnd") /\ UNCHANGED frames
       ELSE IF \E c \in footnoteExtension(options).text : c[1] = code
            THEN LET c == CHOOSE c \in footnoteExtension(options).text : c[1] = code
                 IN  Hook("attempt", c[2], TokenizerOf(c[2]), "text", "textData")
            ELSE Call("textData") /\ UNCHANGED frames
    /\ UNCHANGED <<fxVars, parsers, containerState, labelVars, sp>>
    /\ Quiet

textData ==
    /\ At("textData")
    /\ SetFx(Exit(Consume(Enter(Fx, "data")), "data"))
    /\ Return("text")
    /\ UNCHANGED <<frames, parsers, containerState, labelVars, sp>>
    /\ Quiet

\* End of the text content: the remembered resolveAll's run, then the compiler.
textEnd ==
    /\ At("textEnd")
    /\ LET r == resolveAll([i \in 1..Len(resolveAllConstructs) |->
                              [resolveAll |-> ConstructResolveAll(resolveAllConstructs[i])]],
                           events, tokens)
       IN  events' = r.events /\ tokens' = r.tokens
    /\ cidx' = 1
    /\ Call("compile")
    /\ UNCHANGED <<cfgVars, run, input, origin, pos, tokenStack, frames,
                   resolveAllConstructs, parsers, containerState, labelVars, sp, docVars,
                   stack, tree>>

(***************************************************************************)
(* Host: document dispatcher.  One footnote definition can be open; each   *)
(* line first offers itself to its continuation, then to a new container.  *)
(* lines records, per line of the open definition, what became of it.      *)
(***************************************************************************)
beginDocument ==
    /\ pc = "start"
    /\ run < Len(Program) /\ Program[run + 1] = "document"
    /\ ResetStream
    /\ pc' = "document" /\ awaiting' = TRUE
    /\ containerState' = EmptyContainerState
    /\ defOpen' = FALSE /\ paraOpen' = FALSE /\ lines' = << >>
    /\ UNCHANGED <<cfgVars, run, parsers, labelVars, sp, treeVars>>

HostFrame == UNCHANGED <<cfgVars, run, input, origin, resolveAllConstructs, parsers,
                         labelVars, sp, treeVars>>

document ==
    /\ At("document")
    /\ IF defOpen
       THEN Hook("attempt", "continuation", TokenizerOf("continuation"),
                 "continued", "notContinued")
       ELSE Call("containerStart") /\ UNCHANGED frames
    /\ UNCHANGED <<fxVars, containerState, docVars>>
    /\ HostFrame

continued ==
    /\ At("continued")
    /\ lines' = Append(lines, "continued")
    /\ paraOpen' = FALSE
    /\ Call("flow")
    /\ UNCHANGED <<fxVars, frames, containerState, defOpen>>
    /\ HostFrame

\* The line does not continue the definition: it is closed (its exit runs) ...
closeContainer ==
    /\ At("notContinued")
    /\ SetFx(footnoteDefinitionEnd(Fx))
    /\ defOpen' = FALSE
    /\ lines' = Append(lines, "closed")
    /\ paraOpen' = FALSE
    /\ Call("containerStart")
    /\ UNCHANGED <<frames, containerState>>
    /\ HostFrame

\* ... unless it lazily continues a paragraph that is open in the definition.
lazyLine ==
    /\ At("notContinued")
    /\ paraOpen
    /\ code # leftSquareBracket
    /\ lines' = Append(lines, "lazy")
    /\ Call("flow")
    /\ UNCHANGED <<fxVars, frames, containerState, defOpen, paraOpen>>
    /\ HostFrame

containerStart ==
    /\ At("containerStart")
    /\ containerState' = EmptyContainerState
    /\ IF \E c \in footnoteExtension(options).document : c[1] = code
       THEN LET c == CHOOSE c \in footnoteExtension(options).document : c[1] = code
            IN  Hook("attempt", c[2], TokenizerOf(c[2]), "definitionStarted", "flow")
       ELSE Call("flow") /\ UNCHANGED frames
    /\ UNCHANGED <<fxVars, docVars>>
    /\ HostFrame

definitionStarted ==
    /\ At("definitionStarted")
    /\ defOpen' = TRUE
    /\ lines' = <<"started">>
    /\ paraOpen' = FALSE
    /\ Call("flow")
    /\ UNCHANGED <<fxVars, frames, containerState>>
    /\ HostFrame

\* The rest of the line is flow content of the innermost open container.
flow ==
    /\ At("flow")
    /\ code # Null
    /\ IF markdownLineEnding(code)
       THEN /\ SetFx(Exit(Consume(Enter(Fx, "lineEnding")), "lineEnding"))
            /\ paraOpen' = paraOpen
            /\ Return("document")
       ELSE /\ SetFx(Exit(Consume(Enter(Fx, "chunkFlow")), "chunkFlow"))
            /\ paraOpen' = (paraOpen \/ ~markdownSpace(code))
            /\ Return("flow")
    /\ UNCHANGED <<frames, containerState, defOpen, lines>>
    /\ HostFrame

\* End of the document: open containers exit; the compiler runs.
documentEnd ==
    /\ At("flow")
    /\ code = Null
    /\ IF defOpen THEN SetFx(footnoteDefinitionEnd(Fx)) ELSE UNCHANGED fxVars
    /\ defOpen' = FALSE
    /\ cidx' = 1
    /\ Call("compile")
    /\ UNCHANGED <<cfgVars, run, input, origin, frames, resolveAllConstructs, parsers,
                   containerState, labelVars, sp, paraOpen, lines, stack, tree>>

(***************************************************************************)
(* Tree builder (footnoteFromMarkdown)                                     *)
(***************************************************************************)
Node(type) ==
    [type |-> type, identifier |-> << >>, label |-> << >>, children |-> << >>,
     value |-> << >>]

isAsciiPunctuation(c) ==
    (c >= 33 /\ c <= 47) \/ (c >= 58 /\ c <= 64) \/ (c >= 91 /\ c <= 96)
        \/ (c >= 123 /\ c <= 126)

\* String.fromCharCode(code): ToUint16 of the number, one code unit
fromCharCode(n) == n % 65536

\* decodeNumericCharacterReference(value, base) on the parsed number
decodeNumericCharacterReference(n) ==
    IF \/ n < 9 \/ n = 11 \/ (n > 13 /\ n < 32)
       \/ (n > 126 /\ n < 160)
       \/ (n > 55295 /\ n < 57344)
       \/ (n > 64975 /\ n < 65008)
       \/ n % 65536 = 65535 \/ n % 65536 = 65534
       \/ n > 1114111
    THEN 65533
    ELSE fromCharCode(n)

isHexDigit(c) == c \in 48..57 \/ c \in 65..70 \/ c \in 97..102

hexDigitValue(c) == IF c \in 48..57 THEN c - 48 ELSE IF c \in 65..70 THEN c - 55 ELSE c - 87

RECURSIVE parseHex(_)
parseHex(digits) ==
    IF digits = << >> THEN 0
    ELSE 16 * parseHex(SubSeq(digits, 1, Len(digits) - 1)) + hexDigitValue(digits[Len(digits)])

\* Index of the `;` of a reference &#x...; that starts at i, or 0
hexReferenceEnd(value, i) ==
    LET ends == {e \in (i + 4)..Len(value) :
                    /\ e - (i + 3) <= 6
                    /\ value[e] = 59
                    /\ \A j \in (i + 3)..(e - 1) : isHexDigit(value[j])}
    IN  IF i + 4 <= Len(value) /\ value[i] = 38 /\ value[i + 1] = 35
           /\ value[i + 2] \in {88, 120} /\ ends # {}
        THEN CHOOSE e \in ends : TRUE
        ELSE 0

\* value.replace(characterEscapeOrReference, decode): character escapes and
\* hexadecimal references (the alphabets here yield no decimal or named one)
\* The replacer of value.replace(characterEscapeOrReference, decode), from
\* index i on: the leftmost match is replaced, the text before it is kept.
RECURSIVE decodeFrom(_, _)
decodeFrom(value, i) ==
    LET escapeAt(j) == /\ value[j] = backslash /\ j < Len(value)
                       /\ isAsciiPunctuation(value[j + 1])
        matchAt(j) == escapeAt(j) \/ hexReferenceEnd(value, j) # 0
    IN  IF \A j \in i..Len(value) : ~matchAt(j) THEN SubSeq(value, i, Len(value))
        ELSE LET m == CHOOSE j \in i..Len(value) :
                          matchAt(j) /\ \A k \in i..(j - 1) : ~matchAt(k)
             IN  SubSeq(value, i, m - 1)
                   \o (IF escapeAt(m)
                       THEN <<value[m + 1]>> \o decodeFrom(value, m + 2)
                       ELSE <<decodeNumericCharacterReference(
                                 parseHex(SubSeq(value, m + 3, hexReferenceEnd(value, m) - 1)))>>
                              \o decodeFrom(value, hexReferenceEnd(value, m) + 1))

decodeString(value) == decodeFrom(value, 1)

CEvent == events[cidx]
CToken == tokens[CEvent.id]
Handles(phase, type) ==
    /\ At("compile")
    /\ cidx <= Len(events)
    /\ CEvent.phase = phase
    /\ CToken.type = type

HandledTypes ==
    {"footnoteDefinition", "footnoteDefinitionLabelString", "footnoteCall",
     "footnoteCallString", "inlineNote"}

CompileFrame ==
    UNCHANGED <<cfgVars, run, streamVars, awaiting, pc, frames, events, tokens,
                tokenStack, resolveAllConstructs, parsers, containerState,
                labelVars, sp, docVars>>

\* this.enter(node, token)
CompilerEnter(node) == stack' = Append(stack, node) /\ tree' = tree

\* this.exit(token): the node leaves the stack; it is a child of the node below.
CompilerExit ==
    LET node == stack[Len(stack)]
        below == SubSeq(stack, 1, Len(stack) - 1)
    IN  IF below = << >>
        THEN stack' = below /\ tree' = Append(tree, node)
        ELSE /\ stack' = [below EXCEPT ![Len(below)].children = Append(@, node)]
             /\ tree' = tree

\* node.identifier of the two label handlers
nodeIdentifier_bogus(token) == sliceSerialize(token, FALSE)

nodeIdentifier_upper(token) == normalizeIdentifier(sliceSerialize(token, FALSE))

nodeIdentifier(token) == StrLower(normalizeIdentifier(sliceSerialize(token, FALSE)))

\* The writes without this.resume(): the buffer stays and takes them.
ResumeInto_bogus(token) ==
    /\ stack' = [stack EXCEPT ![Len(stack)].label = stack[Len(stack)].value,
                              ![Len(stack)].identifier = nodeIdentifier(token)]
    /\ tree' = tree

\* this.resume() followed by the writes to the node now on top
ResumeInto(token) ==
    LET label == stack[Len(stack)].value
        below == SubSeq(stack, 1, Len(stack) - 1)
    IN  /\ stack' = [below EXCEPT ![Len(below)].label = label,
                                  ![Len(below)].identifier = nodeIdentifier(token)]
        /\ tree' = tree

enterFootnoteDefinition ==
    /\ Handles("enter", "footnoteDefinition")
    /\ CompilerEnter(Node("footnoteDefinition"))
    /\ cidx' = cidx + 1
    /\ CompileFrame

enterFootnoteDefinitionLabelString ==
    /\ Handles("enter", "footnoteDefinitionLabelString")
    /\ CompilerEnter(Node("fragment"))
    /\ cidx' = cidx + 1
    /\ CompileFrame

exitFootnoteDefinitionLabelString ==
    /\ Handles("exit", "footnoteDefinitionLabelString")
    /\ ResumeInto(CToken)
    /\ cidx' = cidx + 1
    /\ CompileFrame

exitFootnoteDefinition ==
    /\ Handles("exit", "footnoteDefinition")
    /\ CompilerExit
    /\ cidx' = cidx + 1
    /\ CompileFrame

enterFootnoteCall ==
    /\ Handles("enter", "footnoteCall")
    /\ CompilerEnter(Node("footnoteReference"))
    /\ cidx' = cidx + 1
    /\ CompileFrame

enterFootnoteCallString ==
    /\ Handles("enter", "footnoteCallString")
    /\ CompilerEnter(Node("fragment"))
    /\ cidx' = cidx + 1
    /\ CompileFrame

exitFootnoteCallString ==
    /\ Handles("exit", "footnoteCallString")
    /\ ResumeInto(CToken)
    /\ cidx' = cidx + 1
    /\ CompileFrame

exitFootnoteCall ==
    /\ Handles("exit", "footnoteCall")
    /\ CompilerExit
    /\ cidx' = cidx + 1
    /\ CompileFrame

enterNote ==
    /\ Handles("enter", "inlineNote")
    /\ CompilerEnter(Node("footnote"))
    /\ cidx' = cidx + 1
    /\ CompileFrame

exitNote ==
    /\ Handles("exit", "inlineNote")
    /\ CompilerExit
    /\ cidx' = cidx + 1
    /\ CompileFrame

\* Events the extension has no handler for go to the host's own handlers, here
\* taken one run at a time.  Text of a string chunk or a data token is added to
\* the open node.
Handled(i) == tokens[events[i].id].type \in HandledTypes

RunEnd(i) ==
    IF \E j \in i..Len(events) : Handled(j)
    THEN CHOOSE j \in i..Len(events) : Handled(j) /\ \A k \in i..(j - 1) : ~Handled(k)
    ELSE Len(events) + 1

RECURSIVE RunText(_, _)
RunText(lo, hi) ==
    IF lo > hi THEN << >>
    ELSE IF lo = hi
         THEN LET token == tokens[events[lo].id]
              IN  IF events[lo].phase = "exit" /\ token.type \in {"chunkString", "data"}
                  THEN decodeString(sliceSerialize(token, FALSE))
                  ELSE << >>
    ELSE LET mid == (lo + hi) \div 2
         IN  RunText(lo, mid) \o RunText(mid + 1, hi)

hostRun(i, top) ==
    LET next == RunEnd(i)
    IN  [next |-> next, top |-> [top EXCEPT !.value = @ \o RunText(i, next - 1)]]

hostHandler ==
    /\ At("compile")
    /\ cidx <= Len(events)
    /\ CToken.type \notin HandledTypes
    /\ LET r == hostRun(cidx, IF stack = << >> THEN Node("root") ELSE stack[Len(stack)])
       IN  /\ cidx' = r.next
           /\ stack' = IF stack = << >> THEN stack
                       ELSE [stack EXCEPT ![Len(stack)] = r.top]
    /\ tree' = tree
    /\ CompileFrame

compileDone ==
    /\ At("compile")
    /\ cidx > Len(events)
    /\ run' = run + 1
    /\ pc' = "start"
    /\ cidx' = 0
    /\ UNCHANGED <<cfgVars, streamVars, awaiting, frames, events, tokens, tokenStack,
                   resolveAllConstructs, parsers, containerState, labelVars, sp,
                   docVars, stack, tree>>

(***************************************************************************)
(* Serializer: position tracker, indentLines, safe                         *)
(***************************************************************************)
NoTracker == [line |-> 0, column |-> 0, lineShift |-> 0]
NoFlow == [tracker |-> NoTracker, results |-> << >>, index |-> -1, given |-> << >>]
NoReturn == [peek |-> << >>, value |-> << >>, arg |-> << >>]
NoNode ==
    [type |-> "none", label |-> << >>, identifier |-> << >>, children |-> << >>,
     join |-> << >>, info |-> [now |-> [line |-> 0, column |-> 0], lineShift |-> 0]]

IsEolChar(c) == c = 10 \/ c = 13

\* value.split(/\r?\n|\r/g), each chunk with the line ending that ends it
RECURSIVE splitEol(_)
splitEol(str) ==
    IF ~\E i \in 1..Len(str) : IsEolChar(str[i])
    THEN <<[chunk |-> str, eol |-> << >>]>>
    ELSE LET i == CHOOSE i \in 1..Len(str) :
                     IsEolChar(str[i]) /\ \A j \in 1..(i - 1) : ~IsEolChar(str[j])
             n == IF str[i] = 13 /\ i < Len(str) /\ str[i + 1] = 10 THEN 2 ELSE 1
         IN  <<[chunk |-> SubSeq(str, 1, i - 1), eol |-> SubSeq(str, i, i + n - 1)]>>
               \o splitEol(SubSeq(str, i + n, Len(str)))

\* Array#join('') of strings
RECURSIVE joinAll(_)
joinAll(strs) == IF strs = << >> THEN << >> ELSE Head(strs) \o joinAll(Tail(strs))

\* track(config): `|| 1` and `|| 0` replace a missing (here 0) field
track(cfg) ==
    [lineShift |-> cfg.lineShift,
     line |-> IF cfg.now.line = 0 THEN 1 ELSE cfg.now.line,
     column |-> IF cfg.now.column = 0 THEN 1 ELSE cfg.now.column]

current(t) == [now |-> [line |-> t.line, column |-> t.column], lineShift |-> t.lineShift]

shift_bogus(t, n) == t

shift(t, n) == [t EXCEPT !.lineShift = @ + n]

move_bogus(t, str) ==
    [tracker |-> [t EXCEPT !.column = @ + Len(str)], value |-> str]

move_unshifted(t, str) ==
    LET chunks == splitEol(str)
        tail == chunks[Len(chunks)].chunk
    IN  [tracker |-> [t EXCEPT !.line = @ + Len(chunks) - 1,
                               !.column = IF Len(chunks) = 1 THEN @ + Len(tail)
                                          ELSE 1 + Len(tail)],
         value |-> str]

\* move(input): the tracker after the move, and the value returned
move(t, str) ==
    LET chunks == splitEol(str)
        tail == chunks[Len(chunks)].chunk
    IN  [tracker |-> [t EXCEPT !.line = @ + Len(chunks) - 1,
                               !.column = IF Len(chunks) = 1 THEN @ + Len(tail)
                                          ELSE 1 + Len(tail) + t.lineShift],
         value |-> str]

\* map(line, index, blank) of footnoteDefinition
definitionMap_bogus(str, k, blank) == IF k # 0 THEN <<32, 32, 32, 32>> \o str ELSE str

definitionMap(str, k, blank) ==
    IF k # 0 THEN (IF blank THEN << >> ELSE <<32, 32, 32, 32>>) \o str ELSE str

\* indentLines(value, map), map being the map of footnoteDefinition:
\* map(line, index, blank) on every line, the line endings kept as they are
indentLines(str) ==
    LET chunks == splitEol(str)
    IN  joinAll([k \in 1..Len(chunks) |->
                    definitionMap(chunks[k].chunk, k - 1, chunks[k].chunk = << >>)
                      \o chunks[k].eol])

\* footnoteToMarkdown.unsafe
footnoteToMarkdownUnsafe ==
    <<[character |-> leftSquareBracket, inConstruct |-> {"phrasing", "label", "reference"},
       notInConstruct |-> {}]>>

listInScope(cstack, list, none) ==
    IF list = {} THEN none
    ELSE \E c \in list : \E i \in 1..Len(cstack) : cstack[i] = c

patternInScope_bogus(cstack, pattern) == FALSE

patternInScope(cstack, pattern) ==
    /\ listInScope(cstack, pattern.inConstruct, TRUE)
    /\ ~listInScope(cstack, pattern.notInConstruct, FALSE)

\* escapeBackslashes(value, after): a backslash before ASCII punctuation, the
\* first character of `after` included, gets a backslash before it
escapeBackslashes_context(str, after) == str \o after

escapeBackslashes_none(str, after) == str

escapeBackslashes(str, after) ==
    LET whole == str \o after
    IN  joinAll([i \in 1..Len(str) |->
                    IF /\ whole[i] = backslash
                       /\ i < Len(whole)
                       /\ isAsciiPunctuation(whole[i + 1])
                    THEN <<backslash, str[i]>>
                    ELSE <<str[i]>>])

\* No config: safe called without before and after
NoConfig == [before |-> << >>, after |-> << >>]

\* The extensions driven directly, outside inkdrop
InitSettingsIdle ==
    /\ unsafe = footnoteToMarkdownUnsafe
    /\ config = NoConfig
    /\ markdownRenderer = FALSE
    /\ remarkPlugins = << >>
    /\ calls = << >>

InitHostIdle ==
    /\ InitSettingsIdle
    /\ indexStack = << >>

\* Number.toString(16).toUpperCase()
RECURSIVE toHex(_)
toHex(n) ==
    LET digit(d) == IF d < 10 THEN 48 + d ELSE 55 + d
    IN  IF n < 16 THEN <<digit(n)>> ELSE toHex(n \div 16) \o <<digit(n % 16)>>

\* '&#x' + charCode in hex + ';'
characterReference(c) == <<38, 35, 120>> \o toHex(c) \o <<59>>

\* The loop of safe over the sorted positions (indices from 0); the patterns
\* here have neither before nor after, and config has no encode.
RECURSIVE safeFrom(_, _, _, _, _)
safeFrom(whole, positions, start, end, after) ==
    IF positions = << >>
    THEN escapeBackslashes(SubSeq(whole, start + 1, end), after)
    ELSE LET position == Head(positions)
         IN  IF position < start \/ position >= end
             THEN safeFrom(whole, Tail(positions), start, end, after)
             ELSE (IF start # position
                   THEN escapeBackslashes(SubSeq(whole, start + 1, position), <<backslash>>)
                   ELSE << >>)
                    \o (IF isAsciiPunctuation(whole[position + 1])
                        THEN <<backslash>>
                               \o safeFrom(whole, Tail(positions), position, end, after)
                        ELSE characterReference(whole[position + 1])
                               \o safeFrom(whole, Tail(positions), position + 1, end, after))

\* safe(state, input, config)
safe(cstack, str, cfg) ==
    LET whole == cfg.before \o str \o cfg.after
        unsafeChars == {unsafe[k].character :
                          k \in {k \in 1..Len(unsafe) : patternInScope(cstack, unsafe[k])}}
        found == {i \in 0..(Len(whole) - 1) : whole[i + 1] \in unsafeChars}
        sorted == [k \in 1..Cardinality(found) |->
                     CHOOSE i \in found : Cardinality({j \in found : j < i}) = k - 1]
    IN  safeFrom(whole, sorted, Len(cfg.before), Len(whole) - Len(cfg.after), cfg.after)

\* association(node)
association(nd) ==
    IF nd.label # << >> \/ nd.identifier = << >> THEN nd.label
    ELSE decodeString(nd.identifier)

(***************************************************************************)
(* Serializer: the handlers of footnoteToMarkdown                          *)
(***************************************************************************)
parserVars ==
    <<profile, options, self, run, streamVars, awaiting, pc, frames, events, tokens,
      tokenStack, resolveAllConstructs, parsers, containerState, labelVars, sp,
      docVars, treeVars>>

\* between(left, right, parent, state) for join functions that return join[k]
RECURSIVE betweenFrom(_, _)
betweenFrom(join, k) ==
    IF k = 0 THEN <<10, 10>>
    ELSE LET result == join[k]
         IN  IF result.kind = "true" \/ (result.kind = "number" /\ result.n = 1)
             THEN <<10, 10>>
             ELSE IF result.kind = "number"
                  THEN [i \in 1..(1 + result.n) |-> 10]
                  ELSE IF result.kind = "false"
                       THEN <<10, 10, 60, 33, 45, 45, 45, 45, 62, 10, 10>>
                       ELSE betweenFrom(join, k - 1)

between(join) == betweenFrom(join, Len(join))

\* .replace(/(\r?\n|\r)$/, ' ')
replaceFinalEol(str) ==
    LET n == Len(str)
    IN  IF n >= 2 /\ str[n - 1] = 13 /\ str[n] = 10 THEN SubSeq(str, 1, n - 2) \o <<32>>
        ELSE IF n >= 1 /\ IsEolChar(str[n]) THEN SubSeq(str, 1, n - 1) \o <<32>>
        ELSE str

\* containerPhrasing: the children's texts flush together; an html child after
\* a line ending turns that line ending into a space.  state.handle(child)
\* is the child's text.
RECURSIVE phrasingFrom(_, _, _, _)
phrasingFrom(children, k, results, before) ==
    IF k > Len(children) THEN joinAll(results)
    ELSE LET child == children[k]
             fix == /\ Len(results) > 0
                    /\ before \in {<<13>>, <<10>>}
                    /\ child.type = "html"
             results1 == IF fix THEN [results EXCEPT ![Len(results)] = replaceFinalEol(@)]
                         ELSE results
             piece == child.out
         IN  phrasingFrom(children, k + 1, Append(results1, piece),
                          IF piece = << >> THEN << >> ELSE <<piece[Len(piece)]>>)

containerPhrasing(nd, cfg) == phrasingFrom(nd.children, 1, << >>, cfg.before)

footnoteReferencePeek == <<leftSquareBracket>>

footnotePeek_bogus == <<leftSquareBracket>>

footnotePeek == <<caret>>

\* handle.peek(...) of containerPhrasing, for a footnoteReference
peekFootnoteReference ==
    /\ serPc = "ready" /\ serNode.type = "footnoteReference"
    /\ returned.peek = << >>
    /\ returned' = [returned EXCEPT !.peek = footnoteReferencePeek]
    /\ UNCHANGED <<serNode, serPc, tracker, output, constructStack, flowState, indexStack, hostVars,
                 parserVars>>

peekFootnote ==
    /\ serPc = "ready" /\ serNode.type = "footnote"
    /\ returned.peek = << >>
    /\ returned' = [returned EXCEPT !.peek = footnotePeek]
    /\ UNCHANGED <<serNode, serPc, tracker, output, constructStack, flowState, indexStack, hostVars,
                 parserVars>>

\* footnoteReference up to its call of safe: the constructs are entered
footnoteReference ==
    /\ serPc = "ready" /\ serNode.type = "footnoteReference"
    /\ LET m1 == move(track(serNode.info), <<leftSquareBracket, caret>>)
       IN  /\ tracker' = m1.tracker
           /\ output' = m1.value
    /\ constructStack' = constructStack \o <<"footnoteReference", "reference">>
    /\ serPc' = "label"
    /\ UNCHANGED <<serNode, flowState, returned, indexStack, hostVars, parserVars>>

\* footnoteReference from its call of safe to its return
footnoteReference_label ==
    /\ serPc = "label" /\ serNode.type = "footnoteReference"
    /\ LET m2 == move(tracker,
                      safe(constructStack, association(serNode),
                           [before |-> output, after |-> <<rightSquareBracket>>]))
           m3 == move(m2.tracker, <<rightSquareBracket>>)
       IN  /\ tracker' = m3.tracker
           /\ output' = output \o m2.value \o m3.value
           /\ returned' = [returned EXCEPT !.value = output \o m2.value \o m3.value]
    /\ constructStack' = SubSeq(constructStack, 1, Len(constructStack) - 2)
    /\ serPc' = "done"
    /\ UNCHANGED <<serNode, flowState, indexStack, hostVars,
                 parserVars>>

\* indexStack.pop()
pop_bogus(list) == list

pop(list) == SubSeq(list, 1, Len(list) - 1)

\* handle.peek(child) or handle(child) of containerPhrasing: the text whose
\* first character is the `after` of the sibling before.  The handlers of
\* this extension have a peek; state.handle(child) is the child's text.
peekOf_bogus(child) == << >>

peekOf(child) ==
    IF child.type = "footnoteReference" THEN footnoteReferencePeek
    ELSE IF child.type = "footnote" THEN footnotePeek
    ELSE child.out

\* String#charAt(0)
charAt0(str) == IF str = << >> THEN << >> ELSE <<str[1]>>

\* String#slice(-1)
sliceLast(str) == IF str = << >> THEN << >> ELSE <<str[Len(str)]>>

\* footnote up to the loop of containerPhrasing: the constructs are entered,
\* containerPhrasing pushes an index and makes its tracker
footnote ==
    /\ serPc = "ready" /\ serNode.type = "footnote"
    /\ LET m1 == move(track(serNode.info), <<caret, leftSquareBracket>>)
       IN  /\ tracker' = m1.tracker
           /\ output' = m1.value
           /\ flowState' = [tracker |-> track(current(m1.tracker)), results |-> << >>,
                            index |-> -1, given |-> << >>,
                            before |-> m1.value, after |-> <<rightSquareBracket>>]
    /\ constructStack' = constructStack \o <<"footnote", "label">>
    /\ indexStack' = Append(indexStack, -1)
    /\ serPc' = "containerPhrasing"
    /\ UNCHANGED <<serNode, returned, hostVars, parserVars>>

\* One turn of the loop of containerPhrasing; given records the info the child
\* was handled with.
containerPhrasing_child ==
    /\ serPc = "containerPhrasing"
    /\ flowState.index + 1 < Len(serNode.children)
    /\ LET k == flowState.index + 1
           child == serNode.children[k + 1]
           after == IF k + 1 < Len(serNode.children)
                    THEN charAt0(peekOf(serNode.children[k + 2]))
                    ELSE flowState.after
           fix == /\ Len(flowState.results) > 0
                  /\ flowState.before \in {<<13>>, <<10>>}
                  /\ child.type = "html"
           results1 == IF fix
                       THEN [flowState.results EXCEPT
                               ![Len(flowState.results)] = replaceFinalEol(@)]
                       ELSE flowState.results
           before == IF fix THEN <<space>> ELSE flowState.before
           tracker1 == IF fix THEN move(track(current(tracker)), joinAll(results1)).tracker
                       ELSE flowState.tracker
           m == move(tracker1, child.out)
       IN  /\ flowState' =
                 [flowState EXCEPT
                    !.tracker = m.tracker,
                    !.results = Append(results1, m.value),
                    !.index = k,
                    !.given = Append(@, [now |-> current(tracker1).now,
                                         lineShift |-> current(tracker1).lineShift,
                                         before |-> before, after |-> after]),
                    !.before = sliceLast(m.value)]
           /\ indexStack' = [indexStack EXCEPT ![Len(indexStack)] = k]
    /\ UNCHANGED <<serNode, serPc, tracker, output, constructStack, returned, hostVars,
                 parserVars>>

\* containerPhrasing pops its index and returns; footnote exits its constructs
\* and returns
containerPhrasing_return ==
    /\ serPc = "containerPhrasing"
    /\ flowState.index + 1 >= Len(serNode.children)
    /\ LET m2 == move(tracker, joinAll(flowState.results))
           m3 == move(m2.tracker, <<rightSquareBracket>>)
       IN  /\ tracker' = m3.tracker
           /\ output' = output \o m2.value \o m3.value
           /\ returned' = [returned EXCEPT !.value = output \o m2.value \o m3.value]
    /\ constructStack' = SubSeq(constructStack, 1, Len(constructStack) - 2)
    /\ indexStack' = pop(indexStack)
    /\ serPc' = "done"
    /\ UNCHANGED <<serNode, flowState, hostVars, parserVars>>

\* tracker.shift(4) of footnoteDefinition
definitionShift == 4

\* footnoteDefinition up to its call of safe: the constructs are entered
footnoteDefinition ==
    /\ serPc = "ready" /\ serNode.type = "footnoteDefinition"
    /\ LET m1 == move(track(serNode.info), <<leftSquareBracket, caret>>)
       IN  /\ tracker' = m1.tracker
           /\ output' = m1.value
    /\ constructStack' = constructStack \o <<"footnoteDefinition", "label">>
    /\ serPc' = "label"
    /\ UNCHANGED <<serNode, flowState, returned, indexStack, hostVars, parserVars>>

\* footnoteDefinition from its call of safe to its call of containerFlow, and
\* the start of that
footnoteDefinition_label ==
    /\ serPc = "label" /\ serNode.type = "footnoteDefinition"
    /\ LET m2 == move(tracker,
                      safe(constructStack, association(serNode),
                           [before |-> output, after |-> <<rightSquareBracket>>]))
           m3 == move(m2.tracker,
                      <<rightSquareBracket, colon>>
                        \o (IF Len(serNode.children) > 0 THEN <<space>> ELSE << >>))
           t4 == shift(m3.tracker, definitionShift)
       IN  /\ tracker' = t4
           /\ output' = output \o m2.value \o m3.value
           /\ flowState' = [tracker |-> track(current(t4)), results |-> << >>,
                            index |-> -1, given |-> << >>]
    /\ constructStack' = SubSeq(constructStack, 1, Len(constructStack) - 1)
    /\ indexStack' = Append(indexStack, -1)
    /\ serPc' = "containerFlow"
    /\ UNCHANGED <<serNode, returned, hostVars, parserVars>>

\* One turn of the loop of containerFlow; state.handle(child) is the child's
\* text; given records the info the child was handled with.
containerFlow_child ==
    /\ serPc = "containerFlow"
    /\ flowState.index + 1 < Len(serNode.children)
    /\ LET k == flowState.index + 1
           given == current(flowState.tracker)
           m1 == move(flowState.tracker, serNode.children[k + 1].out)
           more == k < Len(serNode.children) - 1
           m2 == move(m1.tracker, between(serNode.join))
       IN  /\ flowState' =
             [tracker |-> IF more THEN m2.tracker ELSE m1.tracker,
              results |-> flowState.results \o <<m1.value>>
                            \o (IF more THEN <<m2.value>> ELSE << >>),
              index |-> k,
              given |-> Append(flowState.given, given)]
           /\ indexStack' = [indexStack EXCEPT ![Len(indexStack)] = k]
    /\ UNCHANGED <<serNode, serPc, tracker, output, constructStack, returned, hostVars,
                 parserVars>>

\* containerFlow returns; footnoteDefinition indents the lines and returns
containerFlow_return ==
    /\ serPc = "containerFlow"
    /\ flowState.index + 1 >= Len(serNode.children)
    /\ LET m == move(tracker, indentLines(joinAll(flowState.results)))
       IN  /\ tracker' = m.tracker
           /\ output' = output \o m.value
           /\ returned' = [returned EXCEPT !.value = output \o m.value]
    /\ constructStack' = SubSeq(constructStack, 1, Len(constructStack) - 1)
    /\ indexStack' = pop(indexStack)
    /\ serPc' = "done"
    /\ UNCHANGED <<serNode, flowState, hostVars, parserVars>>

\* safe called on a text, as a handler calls it
safeCall ==
    /\ serPc = "safe"
    /\ returned' = [returned EXCEPT !.value = safe(constructStack, returned.arg, config)]
    /\ serPc' = "safed"
    /\ UNCHANGED <<serNode, tracker, output, constructStack, flowState, indexStack, hostVars,
                 parserVars>>

\* safe called on what safe returned
safeAgain ==
    /\ serPc = "safed"
    /\ output' = safe(constructStack, returned.value, config)
    /\ serPc' = "again"
    /\ UNCHANGED <<serNode, tracker, constructStack, flowState, returned, indexStack, hostVars,
                 parserVars>>

\* decodeString called on what safe returned
decodeCall ==
    /\ serPc = "safed"
    /\ output' = decodeString(returned.value)
    /\ serPc' = "decoded"
    /\ UNCHANGED <<serNode, tracker, constructStack, flowState, returned, indexStack, hostVars,
                 parserVars>>

\* tracker.move(text) and tracker.shift(n), called by a host handler
trackMove ==
    /\ serPc = "track"
    /\ \E str \in UNION {[1..n -> {cha, 10, 13}] : n \in 0..MaxMoveLen} :
          /\ Len(output) + Len(str) <= MaxMoved
          /\ tracker' = move(tracker, str).tracker
          /\ returned' = [peek |-> << >>, value |-> move(tracker, str).value, arg |-> str]
          /\ output' = output \o str
    /\ UNCHANGED <<serNode, serPc, constructStack, flowState, indexStack, hostVars,
                 parserVars>>

\* The values shift is called with: one column, and the indent of a definition
ShiftValues == {1, definitionShift}

trackShift ==
    /\ serPc = "track"
    /\ \E n \in ShiftValues :
          /\ tracker.lineShift + n <= MaxShift
          /\ tracker' = shift(tracker, n)
    /\ returned' = NoReturn
    /\ UNCHANGED <<serNode, serPc, output, constructStack, flowState, indexStack, hostVars,
                 parserVars>>

(***************************************************************************)
(* Plugin lifecycle: activate and deactivate (src/lib/footnotes.js)        *)
(***************************************************************************)
\* A plugin function as an entry of remarkPlugins
pluginFunction(name) == [plugin |-> name, pair |-> FALSE, options |-> << >>]

\* [footnotes, { inlineNotes: true }]
footnotesEntry_bogus ==
    [plugin |-> "remarkFootnotes", pair |-> TRUE, options |-> <<[inlineNotes |-> FALSE]>>]

footnotesEntry ==
    [plugin |-> "remarkFootnotes", pair |-> TRUE, options |-> <<[inlineNotes |-> TRUE]>>]

\* Array.prototype.indexOf, indices from 0
indexOf(list, entry) ==
    IF \E i \in 1..Len(list) : list[i] = entry
    THEN (CHOOSE i \in 1..Len(list) :
              list[i] = entry /\ \A j \in 1..(i - 1) : list[j] # entry) - 1
    ELSE -1

\* list.splice(i, 1)
spliceOne(list, i) == SubSeq(list, 1, i) \o SubSeq(list, i + 2, Len(list))

activate ==
    /\ profile = "plugin"
    /\ Len(calls) < MaxCalls
    /\ remarkPlugins' = IF markdownRenderer THEN Append(remarkPlugins, footnotesEntry)
                        ELSE remarkPlugins
    /\ calls' = Append(calls, [call |-> "activate", found |-> remarkPlugins])
    /\ UNCHANGED <<serNode, serPc, tracker, output, constructStack, indexStack, flowState, returned,
                   unsafe, config, markdownRenderer, parserVars>>

deactivate ==
    /\ profile = "plugin"
    /\ Len(calls) < MaxCalls
    /\ LET i == indexOf(remarkPlugins, pluginFunction("remarkFootnotes"))
       IN  remarkPlugins' = IF markdownRenderer /\ i >= 0 THEN spliceOne(remarkPlugins, i)
                            ELSE remarkPlugins
    /\ calls' = Append(calls, [call |-> "deactivate", found |-> remarkPlugins])
    /\ UNCHANGED <<serNode, serPc, tracker, output, constructStack, indexStack, flowState, returned,
                   unsafe, config, markdownRenderer, parserVars>>

(***************************************************************************)
(* Inline notes: text runs over ^ [ ] a                                    *)
(***************************************************************************)
InitBase ==
    /\ run = 0
    /\ input = << >> /\ origin = 0 /\ pos = 1
    /\ code = Null /\ codeIdx = 0
    /\ awaiting = FALSE
    /\ pc = "start"
    /\ frames = << >>
    /\ events = << >> /\ tokens = << >> /\ tokenStack = << >>
    /\ resolveAllConstructs = << >>
    /\ parsers = [p \in Parsers |-> NoParser]
    /\ self = 1
    /\ containerState = EmptyContainerState
    /\ size = 0 /\ data = FALSE /\ identifier = << >>
    /\ sp = NoSpace
    /\ defOpen = FALSE /\ paraOpen = FALSE /\ lines = << >>
    /\ cidx = 0 /\ stack = << >> /\ tree = << >>
    /\ serNode = NoNode /\ serPc = "none"
    /\ tracker = NoTracker /\ output = << >> /\ constructStack = << >>
    /\ flowState = NoFlow /\ returned = NoReturn
    /\ InitHostIdle

InitNote ==
    /\ profile = "note"
    /\ options \in {[inlineNotes |-> TRUE], [inlineNotes |-> FALSE]}
    /\ InitBase

NextNote ==
    \/ Go
    \/ ok
    \/ nok
    \/ beginText
    \/ text
    \/ textData
    \/ textEnd
    \/ tokenizeFootnoteCall
    \/ tokenizeFootnoteCall_start
    \/ tokenizeFootnoteCall_callStart
    \/ tokenizeFootnoteCall_callData
    \/ tokenizeNoteStart_start
    \/ tokenizeNoteStart_noteStart
    \/ tokenizeNoteEnd_start
    \/ enterNote
    \/ exitNote
    \/ hostHandler
    \/ compileDone

SpecNote == InitNote /\ [][NextNote]_vars

(***************************************************************************)
(* Definitions followed by a call: labels over a, b                        *)
(***************************************************************************)
InitReg ==
    /\ profile = "reg"
    /\ options = [inlineNotes |-> TRUE]
    /\ InitBase

DefinitionLabelActions ==
    \/ tokenizeDefinitionStart
    \/ tokenizeDefinitionStart_start
    \/ tokenizeDefinitionStart_labelStart
    \/ tokenizeDefinitionStart_atBreak
    \/ tokenizeDefinitionStart_label
    \/ tokenizeDefinitionStart_labelAfter
    \/ tokenizeDefinitionStart_onBlank
    \/ tokenizeDefinitionStart_done

DefinitionStartActions ==
    \/ DefinitionLabelActions
    \/ tokenizeDefinitionStart_nonBlank

CallActions ==
    \/ tokenizeFootnoteCall
    \/ tokenizeFootnoteCall_start
    \/ tokenizeFootnoteCall_callStart
    \/ tokenizeFootnoteCall_callData
    \/ tokenizeFootnoteCall_end

NoteActions ==
    \/ tokenizeNoteStart_start
    \/ tokenizeNoteStart_noteStart
    \/ tokenizeNoteEnd_start

BlankLineActions ==
    \/ tokenizeBlankLine_start
    \/ tokenizeBlankLine_after
    \/ factorySpace_start
    \/ factorySpace_prefix

ContinuationActions ==
    \/ tokenizeDefinitionContinuation
    \/ tokenizeDefinitionContinuation_onBlank
    \/ tokenizeDefinitionContinuation_notBlank

DefinitionHandlers ==
    \/ enterFootnoteDefinition
    \/ enterFootnoteDefinitionLabelString
    \/ exitFootnoteDefinitionLabelString
    \/ exitFootnoteDefinition

CallHandlers ==
    \/ enterFootnoteCall
    \/ enterFootnoteCallString
    \/ exitFootnoteCallString
    \/ exitFootnoteCall

DocumentHost ==
    \/ beginDocument
    \/ document
    \/ continued
    \/ closeContainer
    \/ containerStart
    \/ definitionStarted
    \/ flow
    \/ documentEnd

TextHost ==
    \/ beginText
    \/ text
    \/ textData
    \/ textEnd

NextReg ==
    \/ Go
    \/ ok
    \/ nok
    \/ DocumentHost
    \/ TextHost
    \/ DefinitionStartActions
    \/ tokenizeBlankLine_start
    \/ tokenizeBlankLine_after
    \/ ContinuationActions
    \/ CallActions
    \/ NoteActions
    \/ DefinitionHandlers
    \/ CallHandlers
    \/ hostHandler
    \/ compileDone

SpecReg == InitReg /\ [][NextReg]_vars

(***************************************************************************)
(* One definition `[^a]:` and the lines after it                           *)
(***************************************************************************)
InitCont ==
    /\ profile = "cont"
    /\ options = [inlineNotes |-> TRUE]
    /\ InitBase

NextCont ==
    \/ Go
    \/ ok
    \/ nok
    \/ DocumentHost
    \/ lazyLine
    \/ DefinitionStartActions
    \/ BlankLineActions
    \/ ContinuationActions
    \/ tokenizeIndent
    \/ tokenizeIndent_afterPrefix
    \/ DefinitionHandlers
    \/ hostHandler
    \/ compileDone

SpecCont == InitCont /\ [][NextCont]_vars

(***************************************************************************)
(* One definition and one call whose labels vary in case and whitespace    *)
(***************************************************************************)
InitFold ==
    /\ profile = "fold"
    /\ options = [inlineNotes |-> TRUE]
    /\ InitBase

NextFold ==
    \/ Go
    \/ ok
    \/ nok
    \/ beginDocument
    \/ document
    \/ continued
    \/ containerStart
    \/ definitionStarted
    \/ flow
    \/ documentEnd
    \/ TextHost
    \/ DefinitionLabelActions
    \/ tokenizeBlankLine_start
    \/ tokenizeBlankLine_after
    \/ tokenizeDefinitionContinuation
    \/ tokenizeDefinitionContinuation_onBlank
    \/ CallActions
    \/ NoteActions
    \/ DefinitionHandlers
    \/ CallHandlers
    \/ hostHandler
    \/ compileDone

SpecFold == InitFold /\ [][NextFold]_vars

(***************************************************************************)
(* One definition and one call with labels around the size cap             *)
(***************************************************************************)
InitLong ==
    /\ profile = "long"
    /\ options = [inlineNotes |-> TRUE]
    /\ InitBase

NextLong == NextFold

SpecLong == InitLong /\ [][NextLong]_vars

(***************************************************************************)
(* Definitions and a call, the call's text parsed by the same or by        *)
(* another parser                                                          *)
(***************************************************************************)
\* A parse invocation makes its own parser object: the text is tokenized with
\* a parser that has tokenized nothing before.
newParser ==
    /\ pc = "start"
    /\ run = 1 /\ self = 1
    /\ self' = 2
    /\ UNCHANGED <<profile, options, serVars, run, streamVars, awaiting, pc, frames, events,
                   tokens, tokenStack, resolveAllConstructs, parsers, containerState,
                   labelVars, sp, docVars, treeVars>>

InitScope == InitReg

NextScope ==
    \/ NextReg
    \/ newParser

SpecScope == InitScope /\ [][NextScope]_vars

(***************************************************************************)
(* One definition and one call with labels over a \ [ ]                    *)
(***************************************************************************)
InitEsc ==
    /\ profile = "esc"
    /\ options = [inlineNotes |-> TRUE]
    /\ InitBase

NextEsc ==
    \/ NextFold
    \/ tokenizeFootnoteCall_callEscape
    \/ tokenizeDefinitionStart_labelEscape
    \/ enterNote
    \/ exitNote

SpecEsc == InitEsc /\ [][NextEsc]_vars

(***************************************************************************)
(* One definition and one call with labels over space, tab, line ending, a *)
(***************************************************************************)
InitBlank ==
    /\ profile = "blank"
    /\ options = [inlineNotes |-> TRUE]
    /\ InitBase

NextBlank == NextFold

SpecBlank == InitBlank /\ [][NextBlank]_vars

(***************************************************************************)
(* A definition, and a text of notes and calls that nest                   *)
(***************************************************************************)
InitNest ==
    /\ profile = "nest"
    /\ options = [inlineNotes |-> TRUE]
    /\ InitBase

NextNest ==
    \/ NextFold
    \/ enterNote
    \/ exitNote

SpecNest == InitNest /\ [][NextNest]_vars

(***************************************************************************)
(* A document of one definition, or a definition and a text of one call,   *)
(* whose label runs up to the size cap and crosses it with escapes         *)
(***************************************************************************)
InitCap ==
    /\ profile \in {"capDocument", "capText"}
    /\ options = [inlineNotes |-> TRUE]
    /\ InitBase

NextCap ==
    \/ NextFold
    \/ tokenizeFootnoteCall_callEscape
    \/ tokenizeDefinitionStart_labelEscape

SpecCap == InitCap /\ [][NextCap]_vars

\* An attempt of tokenizeFootnoteCall or tokenizeDefinitionStart is open.
AttemptOpen ==
    \E i \in 1..Len(frames) : frames[i].construct \in {"call", "definition"}

\* The main loop of the tokenizer, `state = state(code)`: while an attempt is
\* open it does not rest, it reads the next code or calls the state function.
mainLoop == AttemptOpen /\ awaiting' = ~awaiting

SpecCapFair == SpecCap /\ WF_awaiting(mainLoop)

(***************************************************************************)
(* Serializing one footnote node                                           *)
(***************************************************************************)
SerInfos ==
    {[now |-> [line |-> 1, column |-> 1], lineShift |-> 0],
     [now |-> [line |-> 2, column |-> 3], lineShift |-> 2]}

SerLabels ==
    {<<cha>>, <<leftSquareBracket>>, <<backslash, leftSquareBracket>>, <<cha, 10, cha>>,
     <<backslash>>}

SerJoins ==
    {<< >>, <<[kind |-> "number", n |-> 0]>>,
     <<[kind |-> "number", n |-> 0], [kind |-> "true", n |-> 0]>>}

\* Texts of flow children: lines of a's, not starting and not ending in a line ending
FlowTexts ==
    {str \in UNION {[1..n -> {cha, 10}] : n \in 1..MaxChildLen} :
        str[1] = cha /\ str[Len(str)] = cha}

PhrasingTexts == {<<cha>>, <<cha, 10>>}

ChildrenOf(types, texts) ==
    UNION {[1..n -> [type : types, out : texts]] : n \in 0..MaxChildren}

\* Children of a footnote: texts and html with and without a final line
\* ending, an empty text, a footnote reference and a footnote
PhrasingChildren ==
    [type : {"text", "html"}, out : PhrasingTexts]
    \cup {[type |-> "text", out |-> << >>],
          [type |-> "footnoteReference",
           out |-> <<leftSquareBracket, caret, cha, rightSquareBracket>>],
          [type |-> "footnote",
           out |-> <<caret, leftSquareBracket, cha, rightSquareBracket>>]}

SerNodes ==
    [type : {"footnoteDefinition"}, label : SerLabels \cup {<< >>}, identifier : {<<cha>>},
     children : ChildrenOf({"paragraph"}, FlowTexts), join : SerJoins, info : SerInfos]
    \cup
    [type : {"footnoteReference"}, label : SerLabels \cup {<< >>}, identifier : {<<cha>>},
     children : {<< >>}, join : {<< >>}, info : SerInfos]
    \cup
    [type : {"footnote"}, label : {<< >>}, identifier : {<< >>},
     children : UNION {[1..n -> PhrasingChildren] : n \in 0..MaxChildren},
     join : {<< >>}, info : SerInfos]

InitParserIdle ==
    /\ options = [inlineNotes |-> TRUE]
    /\ run = 0
    /\ input = << >> /\ origin = 0 /\ pos = 1
    /\ code = Null /\ codeIdx = 0
    /\ awaiting = FALSE
    /\ pc = "start"
    /\ frames = << >>
    /\ events = << >> /\ tokens = << >> /\ tokenStack = << >>
    /\ resolveAllConstructs = << >>
    /\ parsers = [p \in Parsers |-> NoParser]
    /\ self = 1
    /\ containerState = EmptyContainerState
    /\ size = 0 /\ data = FALSE /\ identifier = << >>
    /\ sp = NoSpace
    /\ defOpen = FALSE /\ paraOpen = FALSE /\ lines = << >>
    /\ cidx = 0 /\ stack = << >> /\ tree = << >>

InitSer ==
    /\ profile = "ser"
    /\ InitParserIdle
    /\ serNode \in SerNodes
    /\ serPc = "ready"
    /\ tracker = NoTracker /\ output = << >>
    /\ constructStack \in {<< >>, <<"phrasing">>}
    /\ indexStack = IF constructStack = << >> THEN << >> ELSE <<1>>
    /\ flowState = NoFlow /\ returned = NoReturn
    /\ InitSettingsIdle

NextSer ==
    \/ peekFootnoteReference
    \/ peekFootnote
    \/ footnoteReference
    \/ footnoteReference_label
    \/ footnote
    \/ containerPhrasing_child
    \/ containerPhrasing_return
    \/ footnoteDefinition
    \/ footnoteDefinition_label
    \/ containerFlow_child
    \/ containerFlow_return

SpecSer == InitSer /\ [][NextSer]_vars

(***************************************************************************)
(* safe on a text                                                          *)
(***************************************************************************)
SafeTexts == UNION {[1..n -> {cha, leftSquareBracket, backslash, 10}] : n \in 0..MaxSafeLen}

ReferenceConfig == [before |-> <<leftSquareBracket, caret>>, after |-> <<rightSquareBracket>>]

SafeConfigs ==
    {NoConfig, ReferenceConfig, [before |-> <<leftSquareBracket>>, after |-> <<leftSquareBracket>>]}

\* state.unsafe: none, the pattern of the extension, and that with a pattern on
\* a character that is no punctuation
SafeUnsafes ==
    {<< >>, footnoteToMarkdownUnsafe,
     footnoteToMarkdownUnsafe
       \o <<[character |-> 10, inConstruct |-> {}, notInConstruct |-> {"label"}]>>}

SafeStacks ==
    {<< >>, <<"footnoteReference", "reference">>, <<"footnoteDefinition", "label">>}

InitSafe ==
    /\ profile = "safe"
    /\ InitParserIdle
    /\ serNode = NoNode
    /\ serPc = "safe"
    /\ tracker = NoTracker /\ output = << >>
    /\ constructStack \in SafeStacks
    /\ flowState = NoFlow
    /\ \E str \in SafeTexts : returned = [NoReturn EXCEPT !.arg = str]
    /\ unsafe \in SafeUnsafes
    /\ config \in SafeConfigs
    /\ markdownRenderer = FALSE /\ remarkPlugins = << >> /\ calls = << >>
    /\ indexStack = << >>

NextSafe ==
    \/ safeCall
    \/ safeAgain
    \/ decodeCall

SpecSafe == InitSafe /\ [][NextSafe]_vars

(***************************************************************************)
(* The plugin activated and deactivated                                    *)
(***************************************************************************)
PluginEntries ==
    {pluginFunction("other"), pluginFunction("remarkFootnotes"),
     [plugin |-> "other", pair |-> TRUE, options |-> <<[inlineNotes |-> FALSE]>>],
     footnotesEntry}

InitPlugin ==
    /\ profile = "plugin"
    /\ InitParserIdle
    /\ serNode = NoNode
    /\ serPc = "none"
    /\ tracker = NoTracker /\ output = << >> /\ constructStack = << >>
    /\ indexStack = << >>
    /\ flowState = NoFlow /\ returned = NoReturn
    /\ unsafe = footnoteToMarkdownUnsafe /\ config = NoConfig
    /\ markdownRenderer \in BOOLEAN
    /\ remarkPlugins \in UNION {[1..n -> PluginEntries] : n \in 0..MaxPlugins}
    /\ calls = << >>

NextPlugin ==
    \/ activate
    \/ deactivate

SpecPlugin == InitPlugin /\ [][NextPlugin]_vars

(***************************************************************************)
(* A position tracker moved past texts                                     *)
(***************************************************************************)
InitTrack ==
    /\ profile = "track"
    /\ InitParserIdle
    /\ \E cfg \in SerInfos \cup {NoNode.info} :
          /\ serNode = [NoNode EXCEPT !.info = cfg]
          /\ tracker = track(cfg)
    /\ serPc = "track"
    /\ output = << >> /\ constructStack = << >>
    /\ flowState = NoFlow /\ returned = NoReturn
    /\ InitHostIdle

NextTrack ==
    \/ trackMove
    \/ trackShift

SpecTrack == InitTrack /\ [][NextTrack]_vars

(***************************************************************************)
(* splice called on a list                                                 *)
(***************************************************************************)
MaxList == 3

\* The lists spliced into: -1, -2, ... (no item is negative)
SpliceLists == {[i \in 1..k |-> 0 - i] : k \in 0..MaxList}

\* The items: 1, 2, ..., n
Items(n) == [i \in 1..n |-> i]

\* Numbers of items: a few, and around one and two chunks
ItemCounts ==
    {0, 1, 2, ChunkSize - 1, ChunkSize, ChunkSize + 1, 2 * ChunkSize, 2 * ChunkSize + 1}

NoSplice == [list |-> << >>, start |-> 0, remove |-> 0, items |-> 0]

InitSplice ==
    /\ profile = "splice"
    /\ InitParserIdle
    /\ serNode = NoNode
    /\ serPc = "splice"
    /\ tracker = NoTracker /\ output = << >> /\ constructStack = << >>
    /\ flowState = NoFlow
    /\ returned \in [list : SpliceLists,
                      start : (0 - MaxList - 1)..(MaxList + 1),
                      remove : (0 - 1)..(MaxList + 1),
                      items : ItemCounts]
    /\ InitHostIdle

\* splice(list, start, remove, items): output is the list afterwards
callSplice ==
    /\ serPc = "splice"
    /\ output' = splice(returned.list, returned.start, returned.remove, Items(returned.items))
    /\ serPc' = "spliced"
    /\ UNCHANGED <<serNode, tracker, constructStack, flowState, returned, indexStack,
                   hostVars, parserVars>>

NextSplice == callSplice

SpecSplice == InitSplice /\ [][NextSplice]_vars

(***************************************************************************)
(* decodeNumericCharacterReference called on one number                    *)
(***************************************************************************)
RefWindow == 3
MaxLowRef == 167

\* Where the kind of a code changes: the surrogates, the noncharacters
\* U+FDD0..U+FDEF, the ends of the 17 planes, and one astral character
RefEdges == {55296, 57344, 64976, 65008, 128512} \cup {65536 * k : k \in 1..17}

\* The numbers decoded: the codes up to the C1 controls and those around the
\* edges
RefCodes ==
    (0..MaxLowRef)
    \cup UNION {(e - RefWindow)..(e + RefWindow) : e \in RefEdges}

InitNumeric ==
    /\ profile = "numeric"
    /\ InitParserIdle
    /\ serNode = NoNode
    /\ serPc = "numeric"
    /\ tracker = NoTracker /\ output = << >> /\ constructStack = << >>
    /\ flowState = NoFlow
    /\ \E n \in RefCodes : returned = [NoReturn EXCEPT !.arg = n]
    /\ InitHostIdle

\* decodeNumericCharacterReference(value, base): output is the string returned
callDecodeNumeric ==
    /\ serPc = "numeric"
    /\ output' = <<decodeNumericCharacterReference(returned.arg)>>
    /\ serPc' = "numericDecoded"
    /\ UNCHANGED <<serNode, tracker, constructStack, flowState, returned, indexStack,
                   hostVars, parserVars>>

NextNumeric == callDecodeNumeric

SpecNumeric == InitNumeric /\ [][NextNumeric]_vars

(***************************************************************************)
(* The character classifiers called on one code                            *)
(***************************************************************************)
MaxCode == 127

\* Code: null, the virtual codes and the characters
ClassCodes == {Null} \cup (carriageReturn..virtualSpace) \cup (0..MaxCode)

\* No classifier called yet: each result is the set of what was returned
NoClass(c) ==
    [arg |-> c, markdownLineEnding |-> {}, markdownLineEndingOrSpace |-> {},
     markdownSpace |-> {}]

InitClass ==
    /\ profile = "class"
    /\ InitParserIdle
    /\ serNode = NoNode
    /\ serPc = "class"
    /\ tracker = NoTracker /\ output = << >> /\ constructStack = << >>
    /\ flowState = NoFlow
    /\ \E c \in ClassCodes : returned = NoClass(c)
    /\ InitHostIdle

callMarkdownLineEnding ==
    /\ serPc = "class" /\ returned.markdownLineEnding = {}
    /\ returned' = [returned EXCEPT !.markdownLineEnding = {markdownLineEnding(returned.arg)}]
    /\ UNCHANGED <<serNode, serPc, tracker, output, constructStack, flowState, indexStack,
                   hostVars, parserVars>>

callMarkdownLineEndingOrSpace ==
    /\ serPc = "class" /\ returned.markdownLineEndingOrSpace = {}
    /\ returned' = [returned EXCEPT
                      !.markdownLineEndingOrSpace = {markdownLineEndingOrSpace(returned.arg)}]
    /\ UNCHANGED <<serNode, serPc, tracker, output, constructStack, flowState, indexStack,
                   hostVars, parserVars>>

callMarkdownSpace ==
    /\ serPc = "class" /\ returned.markdownSpace = {}
    /\ returned' = [returned EXCEPT !.markdownSpace = {markdownSpace(returned.arg)}]
    /\ UNCHANGED <<serNode, serPc, tracker, output, constructStack, flowState, indexStack,
                   hostVars, parserVars>>

NextClass ==
    \/ callMarkdownLineEnding
    \/ callMarkdownLineEndingOrSpace
    \/ callMarkdownSpace

SpecClass == InitClass /\ [][NextClass]_vars

(***************************************************************************)
(* Properties of the inline-note tokenizers and resolver (SpecNote)        *)
(***************************************************************************)
\* The attempt whose verdict is pending: the construct on top of the hooks.
Reported(verdict, construct) ==
    pc = verdict /\ frames # << >> /\ Top.construct = construct

\* The text before the code the innermost attempt started at.
TextBefore == SubSeq(input, origin + 1, Top.info.pos - 1)

\* Note starts of a text that no `]` has closed yet, read off the characters:
\* `^[` opens one; a `]` closes the nearest open one, if there is one.
RECURSIVE OpenStarts(_, _, _)
OpenStarts(str, i, open) ==
    IF i > Len(str) THEN open
    ELSE IF str[i] = caret /\ i < Len(str) /\ str[i + 1] = leftSquareBracket
         THEN OpenStarts(str, i + 2, open + 1)
         ELSE IF str[i] = rightSquareBracket /\ open > 0
              THEN OpenStarts(str, i + 1, open - 1)
              ELSE OpenStarts(str, i + 1, open)

StartEventsBefore(n) ==
    {i \in 1..n : events[i].phase = "enter" /\ TypeAt(events, tokens, i) = "inlineNoteStart"}

\* C4. tokenizeNoteEnd reports success only if a note start that no earlier
\* note has used is in the event buffer; with none it reports failure, and
\* then it has emitted no event and has not consumed the `]`.
C4_NoteEndNeedsOpenStart ==
    /\ Reported("ok", "noteEnd") =>
          /\ StartEventsBefore(Top.info.nEvents) # {}
          /\ OpenStarts(TextBefore, 1, 0) > 0
    /\ Reported("nok", "noteEnd") =>
          /\ StartEventsBefore(Len(events)) = {}
          /\ OpenStarts(TextBefore, 1, 0) = 0
          /\ Len(events) = Top.info.nEvents
          /\ Len(tokens) = Top.info.nTokens
          /\ pos = Top.info.pos

\* A `]` is refused although a note was opened earlier: that note is resolved.
C4_Witness ==
    /\ Reported("nok", "noteEnd")
    /\ \E i \in 1..Len(events) : TypeAt(events, tokens, i) = "inlineNote"

\* Enter and exit events pair up last-in first-out; tokens may still be open.
RECURSIVE NestedFrom(_, _, _)
NestedFrom(evs, i, open) ==
    IF i > Len(evs) THEN TRUE
    ELSE IF evs[i].phase = "enter"
         THEN evs[i].id \notin {open[k] : k \in 1..Len(open)}
                /\ NestedFrom(evs, i + 1, Append(open, evs[i].id))
         ELSE /\ open # << >>
              /\ open[Len(open)] = evs[i].id
              /\ NestedFrom(evs, i + 1, SubSeq(open, 1, Len(open) - 1))

NestedLIFO(evs) == NestedFrom(evs, 1, << >>)

HasNote == \E i \in 1..Len(events) : TypeAt(events, tokens, i) = "inlineNote"

\* C10. Once resolveToNoteEnd has built a note, the events are properly
\* nested: every enter precedes its exit and pairs close last-in first-out.
C10_NoteEventsNested == HasNote => NestedLIFO(events)

\* The elements of seq at the indices outside drop, in their order.
Without(seq, drop) ==
    LET kept == {i \in 1..Len(seq) : i \notin drop}
    IN  [k \in 1..Cardinality(kept) |->
            seq[CHOOSE i \in kept : Cardinality({j \in kept : j < i}) = k - 1]]

\* The text of the run that has been tokenized, without the end of input.
WholeText == SelectSeq(Chunk, LAMBDA c : c # Null)

MarkerShape ==
    <<[phase |-> "enter", type |-> "inlineNoteMarker"],
      [phase |-> "exit", type |-> "inlineNoteMarker"],
      [phase |-> "enter", type |-> "inlineNoteStartMarker"],
      [phase |-> "exit", type |-> "inlineNoteStartMarker"]>>

\* C11. The resolveAll pass at the end of a text run leaves no event with a
\* token of type inlineNoteStart: each note start no `]` has matched has its
\* token retyped to data and is left as an enter directly followed by its
\* exit, the four marker events after its enter are removed, and every other
\* event stays, in the order it had.  There is one such start for each `^[`
\* of the text that no `]` closes.
C11_OrphanStartsBecomeData ==
    [][(pc = "textEnd" /\ pc' = "compile") =>
         LET starts == StartEventsBefore(Len(events))
             ids == {events[i].id : i \in starts}
             markers == UNION {{i + 1, i + 2, i + 3, i + 4} : i \in starts}
         IN  /\ \A j \in 1..Len(events') :
                    TypeAt(events', tokens', j) # "inlineNoteStart"
             /\ \A i \in starts : \A d \in 1..4 :
                    /\ events[i + d].phase = MarkerShape[d].phase
                    /\ TypeAt(events, tokens, i + d) = MarkerShape[d].type
             /\ events' = Without(events, markers)
             /\ tokens' = [t \in 1..Len(tokens) |->
                             IF t \in ids THEN [tokens[t] EXCEPT !.type = "data"]
                             ELSE tokens[t]]
             /\ \A j \in 1..Len(events') :
                    (events'[j].id \in ids /\ events'[j].phase = "enter") =>
                        /\ j < Len(events')
                        /\ events'[j + 1] = [phase |-> "exit", id |-> events'[j].id]
             /\ options.inlineNotes =>
                    Cardinality(starts) = OpenStarts(WholeText, 1, 0)]_vars

\* A text with a resolved note and a `^[` left over has been resolved: the
\* left-over start is a data token of two codes.
C11_Witness ==
    /\ profile = "note" /\ pc = "compile" /\ cidx = 1
    /\ HasNote
    /\ \E j \in 1..Len(events) :
          /\ TypeAt(events, tokens, j) = "data"
          /\ tokens[events[j].id].end - tokens[events[j].id].start = 2

\* The types of the tokens the inline-note constructs produce.
NoteTypes ==
    {"inlineNoteStart", "inlineNoteMarker", "inlineNoteStartMarker", "inlineNoteEnd",
     "inlineNoteEndMarker", "inlineNote", "inlineNoteText"}

Registered(content, c, construct) == <<c, construct>> \in content

\* C12. The extension registers the definition construct for `[` in document
\* content and the call construct for `[` in text content whatever the
\* options; it registers the note end for `]` and the note start for `^`
\* exactly when options.inlineNotes is set, and without it no inline-note
\* construct is attempted and no token of an inline-note type exists.
C12_InlineNotesOnlyWhenEnabled ==
    LET ext == footnoteExtension(options)
    IN  /\ ext.document = {<<leftSquareBracket, "definition">>}
        /\ Registered(ext.text, leftSquareBracket, "call")
        /\ \A c \in ext.text : c[1] = leftSquareBracket => c[2] = "call"
        /\ Registered(ext.text, rightSquareBracket, "noteEnd") <=> options.inlineNotes
        /\ Registered(ext.text, caret, "noteStart") <=> options.inlineNotes
        /\ \A c \in ext.text : c[2] \in {"noteEnd", "noteStart"} => options.inlineNotes
        /\ ~options.inlineNotes =>
              /\ \A t \in 1..Len(tokens) : tokens[t].type \notin NoteTypes
              /\ \A f \in 1..Len(frames) :
                    frames[f].construct \notin {"noteStart", "noteEnd"}
              /\ ~includes(resolveAllConstructs, "noteStart")
              /\ ~includes(resolveAllConstructs, "noteEnd")

\* `^[a]` has been tokenized with inline notes disabled.
C12_Witness ==
    /\ profile = "note" /\ ~options.inlineNotes
    /\ pc = "compile"
    /\ WholeText = <<caret, leftSquareBracket, cha, rightSquareBracket>>

(***************************************************************************)
(* Properties of the known-identifier list (SpecReg)                       *)
(***************************************************************************)
\* The characters between `[^` and the code at index upto - 1, of the
\* attempt on top of the hooks.
LabelText(upto) ==
    serializeChunks(SubSeq(input, Top.info.pos + 2, upto - 1), FALSE, FALSE)

\* The attempt has read `[^`, a label with a non-blank character and no
\* bracket, and is at the closing `]`.
AtLabelClose ==
    /\ codeIdx >= Top.info.pos + 3
    /\ input[Top.info.pos] = leftSquareBracket
    /\ input[Top.info.pos + 1] = caret
    /\ input[codeIdx] = rightSquareBracket
    /\ \A i \in (Top.info.pos + 2)..(codeIdx - 1) :
          input[i] \notin {leftSquareBracket, rightSquareBracket, backslash, Null}
    /\ \E i \in (Top.info.pos + 2)..(codeIdx - 1) : ~markdownLineEndingOrSpace(input[i])

\* C1. tokenizeFootnoteCall reports success only if the normalized label is
\* already in the known-identifier list when the closing `]` is reached; a
\* well-formed call whose identifier is not in the list is refused.
C1_CallNeedsKnownIdentifier ==
    /\ Reported("ok", "call") =>
          /\ includes(Top.before.footnotes, normalizeIdentifier(LabelText(pos - 1)))
          /\ Footnotes = Top.before.footnotes
    /\ (Reported("nok", "call") /\ AtLabelClose /\ codeIdx - Top.info.pos - 2 <= LabelSizeMax) =>
          ~includes(Footnotes, normalizeIdentifier(LabelText(codeIdx)))

\* A call is accepted while the list holds two identifiers.
C1_Witness == Reported("ok", "call") /\ Len(Footnotes) = 2

InDefinition == frames # << >> /\ frames[1].construct = "definition"

\* The first `]` from the start of the attempt on top of the hooks.
ClosingBracket ==
    CHOOSE i \in Top.info.pos..Len(input) :
        /\ input[i] = rightSquareBracket
        /\ \A j \in Top.info.pos..(i - 1) : input[j] # rightSquareBracket

\* C7 as stated: once the definition's label is closed, before the `:` is
\* examined, the identifier is in the list.
C7_RegisteredAtLabelClose ==
    (pc = "tokenizeDefinitionStart_labelAfter" /\ InDefinition) =>
        includes(Footnotes, identifier)

\* C7. The identifier is registered when the definition start succeeds, after
\* the `:` and the look at the rest of the line: until then the list is what it
\* was when the attempt began, and on success the identifier is in it.
C7_RegisteredOnSuccess ==
    /\ (InDefinition /\ ~Reported("ok", "definition")) =>
          Footnotes = frames[1].before.footnotes
    /\ Reported("ok", "definition") =>
          /\ includes(Footnotes, identifier)
          /\ identifier = normalizeIdentifier(LabelText(ClosingBracket))

\* The `:` of a definition with a new identifier is consumed and the list does
\* not hold the identifier yet.
C7_Witness ==
    /\ pc = "tokenizeDefinitionStart_done"
    /\ InDefinition
    /\ ~includes(Footnotes, identifier)

NoDuplicates(list) == \A i, j \in 1..Len(list) : list[i] = list[j] => i = j

\* C8. The list never holds an identifier twice and never loses one: the only
\* change to it is tokenizeDefinitionStart.done appending its identifier when
\* the list does not hold it; when it does, the list stays as it is.
C8_ListGrowsWithoutDuplicates ==
    /\ []NoDuplicates(Footnotes)
    /\ [][/\ Footnotes' # Footnotes =>
               /\ pc = "tokenizeDefinitionStart_done"
               /\ ~includes(Footnotes, identifier)
               /\ Footnotes' = Append(Footnotes, identifier)
          /\ (pc = "tokenizeDefinitionStart_done" /\ ~awaiting /\ includes(Footnotes, identifier))
               => Footnotes' = Footnotes
          /\ (pc = "tokenizeDefinitionStart_done" /\ ~awaiting /\ ~includes(Footnotes, identifier))
               => Footnotes' = Append(Footnotes, identifier)]_vars

\* A definition succeeds whose identifier an earlier definition registered.
C8_Witness ==
    /\ Reported("ok", "definition")
    /\ includes(Top.before.footnotes, identifier)

(***************************************************************************)
(* Properties of the scope of the known-identifier list (SpecScope)        *)
(***************************************************************************)
\* C13. Each parser has its own known-identifier list.  A parser no tokenizer
\* has run with has none; the call tokenizer or the definition tokenizer
\* creates it, empty, for the parser it runs with and for no other; a
\* definition registers in the list of its own parser only; and a call is
\* accepted only on an identifier in the list of the parser it runs with, so
\* never by a parser other than the one that tokenized the definitions.
C13_ListScopedToParser ==
    /\ [](/\ \A p \in Parsers : ~parsers[p].created => parsers[p].footnotes = << >>
          /\ parsers[2].footnotes = << >>
          /\ Reported("ok", "call") =>
                /\ self = 1
                /\ includes(parsers[self].footnotes,
                            normalizeIdentifier(LabelText(pos - 1))))
    /\ [][\A p \in Parsers :
            /\ (~parsers[p].created /\ parsers'[p].created) =>
                  /\ p = self
                  /\ pc \in {"tokenizeFootnoteCall", "tokenizeDefinitionStart"}
                  /\ parsers'[p].footnotes = << >>
            /\ parsers'[p].footnotes # parsers[p].footnotes => p = self]_vars

\* A second parser refuses a call whose identifier the first parser holds.
C13_Witness ==
    /\ self = 2
    /\ Reported("nok", "call") /\ AtLabelClose
    /\ parsers[2].created
    /\ includes(parsers[1].footnotes, normalizeIdentifier(LabelText(codeIdx)))

(***************************************************************************)
(* Properties of definition continuation (SpecCont).  Line 0 is the line   *)
(* of the definition; lines[k + 1] is what became of line k.               *)
(***************************************************************************)
EolAt == {i \in (origin + 1)..Len(input) : IsEol(input[i])}

LineStart(k) ==
    IF k = 0 THEN origin + 1
    ELSE 1 + CHOOSE i \in EolAt : Cardinality({j \in EolAt : j <= i}) = k

\* Leading markdown whitespace of the codes from index `from`; a tab is
\* followed by the virtual spaces that fill it up to 4 columns.
Lead(from) ==
    CHOOSE n \in 0..(Len(input) + 1 - from) :
        /\ \A i \in from..(from + n - 1) : markdownSpace(input[i])
        /\ from + n > Len(input) \/ ~markdownSpace(input[from + n])

\* What follows the leading whitespace has been read.
Known(from) == from + Lead(from) <= Len(input)

BlankFrom(from) ==
    Known(from) /\ (IsEol(input[from + Lead(from)]) \/ input[from + Lead(from)] = Null)

NonBlankFrom(from) == Known(from) /\ ~BlankFrom(from)

Judged == 1..(Len(lines) - 1)

Blank(k) == BlankFrom(LineStart(k))
NonBlank(k) == NonBlankFrom(LineStart(k))
Indent(k) == Lead(LineStart(k))

\* The definition's line has nothing but whitespace after `[^a]:`.
OpeningBlank == BlankFrom(origin + Len(ContScript) + 1)

\* C5. A blank line always continues the definition.  When the definition
\* opened on a blank line and blank lines followed, the first non-blank line
\* after them is refused and the definition closes, whatever its indent.
\* When the line after a blank opening is non-blank and indented by 4 it
\* continues the definition, and so do blank lines after it.
C5_BlankLineRules ==
    \A k \in Judged :
        /\ Blank(k) => lines[k + 1] = "continued"
        /\ (/\ OpeningBlank
            /\ k >= 2
            /\ \A j \in 1..(k - 1) : Blank(j)
            /\ NonBlank(k)) => lines[k + 1] = "closed"
        /\ (OpeningBlank /\ k = 1 /\ NonBlank(k) /\ Indent(k) >= IndentSize) =>
              lines[k + 1] = "continued"

\* `[^a]:`, a blank line, then a line indented by 4 or more that is refused.
C5_Witness ==
    /\ Len(lines) = 3
    /\ OpeningBlank /\ Blank(1) /\ NonBlank(2) /\ Indent(2) >= IndentSize
    /\ lines[3] = "closed"

IndentTokens(evs, toks) ==
    {evs[i].id : i \in {j \in 1..Len(evs) : TypeAt(evs, toks, j) = "footnoteDefinitionIndent"}}

C9_FailureLeavesSharedState ==
    (pc = "nok" /\ frames # << >>) =>
        /\ Footnotes = Top.before.footnotes
        /\ containerState = Top.before.containerState

(***************************************************************************)
(* Properties of label matching (SpecFold)                                 *)
(***************************************************************************)
\* The codes between `[^` and the first `]` from index `from`.
LabelFrom(from) ==
    LET close == CHOOSE i \in from..Len(input) :
                    /\ input[i] = rightSquareBracket
                    /\ \A j \in from..(i - 1) : input[j] # rightSquareBracket
    IN  SubSeq(input, from + 2, close - 1)

DefinitionLabel == LabelFrom(1)
CallLabel == LabelFrom(origin + 1)

\* The words of a label: its maximal runs of codes that are not whitespace.
RECURSIVE Words(_, _)
Words(label, word) ==
    IF label = << >> THEN (IF word = << >> THEN << >> ELSE <<word>>)
    ELSE IF markdownLineEndingOrSpace(Head(label))
         THEN (IF word = << >> THEN << >> ELSE <<word>>) \o Words(Tail(label), << >>)
         ELSE Words(Tail(label), Append(word, Head(label)))

CasePairs ==
    {{cha, chA}, {chb, chB}, {chTheta, chCapTheta}, {chTheta, chThetaSymbol},
     {chCapTheta, chThetaSymbol}}

SameLetter(c, d) == c = d \/ {c, d} \in CasePairs

\* Two labels that differ only in letter case and in whitespace.
SameUpToCaseAndSpace(l1, l2) ==
    LET w1 == Words(l1, << >>)
        w2 == Words(l2, << >>)
    IN  /\ Len(w1) = Len(w2)
        /\ \A i \in 1..Len(w1) :
              /\ Len(w1[i]) = Len(w2[i])
              /\ \A j \in 1..Len(w1[i]) : SameLetter(w1[i][j], w2[i][j])

NodesOf(type) == {i \in 1..Len(tree) : tree[i].type = type}

BothCompiled == profile = "fold" /\ run = 2 /\ pc = "start"

CaseForms ==
    {[of |-> {cha, chA}, lower |-> cha, upper |-> chA],
     [of |-> {chTheta, chCapTheta, chThetaSymbol}, lower |-> chTheta, upper |-> chCapTheta]}

FormsOf(c) == CHOOSE f \in CaseForms : c \in f.of

\* The words of a label joined by single spaces, each letter in one case.
RECURSIVE Joined(_, _)
Joined(words, upper) ==
    IF words = << >> THEN << >>
    ELSE LET w == [j \in 1..Len(words[1]) |->
                     IF upper THEN FormsOf(words[1][j]).upper
                     ELSE FormsOf(words[1][j]).lower]
         IN  IF Len(words) = 1 THEN w
             ELSE w \o <<space>> \o Joined(Tail(words), upper)

LabelOfNode(n) ==
    IF tree[n].type = "footnoteDefinition" THEN DefinitionLabel ELSE CallLabel

LabelledNodes == NodesOf("footnoteDefinition") \cup NodesOf("footnoteReference")

RECURSIVE LabelScan(_, _, _)
LabelScan(i, upto, escaped) ==
    IF i > upto THEN [state |-> "open", at |-> i]
    ELSE IF escaped /\ input[i] \in {leftSquareBracket, backslash, rightSquareBracket}
         THEN LabelScan(i + 1, upto, FALSE)
         ELSE IF input[i] = Null \/ input[i] = leftSquareBracket
              THEN [state |-> "spoiled", at |-> i]
              ELSE IF input[i] = rightSquareBracket
                   THEN [state |-> "closed", at |-> i]
                   ELSE LabelScan(i + 1, upto, input[i] = backslash)

LabelStates ==
    {"tokenizeFootnoteCall_callData", "tokenizeFootnoteCall_callEscape",
     "tokenizeDefinitionStart_atBreak", "tokenizeDefinitionStart_label",
     "tokenizeDefinitionStart_labelEscape"}

LabelAttempt == frames # << >> /\ Top.construct \in {"call", "definition"}

LabelBegin == Top.info.pos + 2

\* C15. In the label of a call and of a definition, a `[`, `\` or `]` right
\* after an unescaped backslash is consumed as part of the label: what the
\* automaton has consumed of a label never holds an unescaped `[`, an
\* unescaped `]` or the end of input, it refuses only at a code that spoils or
\* closes the label, and the label it closes ends at the first unescaped `]`
\* with no unescaped `[` before it.
C15_EscapedBracketsStayInLabel ==
    LabelAttempt =>
        /\ pc \in LabelStates =>
              LabelScan(LabelBegin, pos - 1, FALSE).state = "open"
        /\ (pc = "nok" /\ codeIdx >= LabelBegin) =>
              LabelScan(LabelBegin, codeIdx, FALSE).state # "open"
        /\ pc = "tokenizeFootnoteCall_end" =>
              LabelScan(LabelBegin, pos, FALSE) = [state |-> "closed", at |-> pos]
        /\ pc = "tokenizeDefinitionStart_labelAfter" =>
              LabelScan(LabelBegin, pos - 1, FALSE) = [state |-> "closed", at |-> pos - 1]

\* The label `\\` of a definition is closed by the `]` after it.
C15_Witness ==
    /\ profile = "esc"
    /\ LabelAttempt /\ Top.construct = "definition"
    /\ pc = "tokenizeDefinitionStart_labelAfter"
    /\ SubSeq(input, LabelBegin, pos - 1) = <<backslash, backslash, rightSquareBracket>>

\* A call with the label `\]` is accepted.
C15_CallWithEscape ==
    /\ profile = "esc"
    /\ Reported("ok", "call")
    /\ SubSeq(input, LabelBegin, pos - 1) = <<backslash, rightSquareBracket, rightSquareBracket>>

(***************************************************************************)
(* Properties of blank labels (SpecBlank)                                  *)
(***************************************************************************)
WhitespaceCodes ==
    {space, horizontalTab, virtualSpace, lineFeed, carriageReturn, carriageReturnLineFeed}

\* The codes between `[^` of the attempt on top and the first `]` after it.
AttemptLabel ==
    LET close == CHOOSE i \in LabelBegin..Len(input) :
                    /\ input[i] = rightSquareBracket
                    /\ \A j \in LabelBegin..(i - 1) : input[j] # rightSquareBracket
    IN  SubSeq(input, LabelBegin, close - 1)

BlankLabel(label) == \A i \in 1..Len(label) : label[i] \in WhitespaceCodes

\* C16. A call and a definition whose label is empty or holds only spaces,
\* tabs and line endings is refused at its `]`: no label that reaches the code
\* after its `]`, and no accepted call or definition, has such a label; and
\* no known-identifier list ever holds the empty string.
C16_BlankLabelsRefused ==
    /\ \A p \in Parsers : \A i \in 1..Len(parsers[p].footnotes) :
          parsers[p].footnotes[i] # << >>
    /\ (LabelAttempt /\ pc \in {"ok", "tokenizeFootnoteCall_end",
                                "tokenizeDefinitionStart_labelAfter"}) =>
          ~BlankLabel(AttemptLabel)
    /\ (LabelAttempt /\ pc = "nok" /\ codeIdx >= LabelBegin
          /\ \A i \in LabelBegin..(codeIdx - 1) : input[i] \in WhitespaceCodes) =>
          input[codeIdx] = rightSquareBracket

\* A definition whose label is a tab and a line ending is refused at its `]`.
C16_Witness ==
    /\ profile = "blank"
    /\ Reported("nok", "definition")
    /\ input[codeIdx] = rightSquareBracket
    /\ BlankLabel(AttemptLabel)
    /\ \E i \in 1..Len(AttemptLabel) : AttemptLabel[i] = horizontalTab
    /\ \E i \in 1..Len(AttemptLabel) : AttemptLabel[i] = lineFeed

\* A call with the empty label is refused.
C16_EmptyCall ==
    /\ profile = "blank"
    /\ Reported("nok", "call")
    /\ codeIdx = LabelBegin /\ input[codeIdx] = rightSquareBracket
    /\ Footnotes # << >>

(***************************************************************************)
(* Properties of the label size cap (SpecLong)                             *)
(***************************************************************************)
\* Label units between `[^` and the code at index `at`, of the attempt on top.
UnitsBefore(at) == at - Top.info.pos - 2

C2_CallAtCap ==
    /\ Reported("ok", "call")
    /\ UnitsBefore(pos - 1) = LabelSizeMax
    /\ \E i \in 1..Len(Footnotes) : Len(Footnotes[i]) = LabelSizeMax

(***************************************************************************)
(* Properties of the serializer handlers (SpecSer)                         *)
(***************************************************************************)
Spaces4 == <<space, space, space, space>>

\* The label as it is written: a backslash before every [, and before every
\* backslash that stands before ASCII punctuation (the closing ] included)
RECURSIVE EscapedFrom(_, _)
EscapedFrom(str, i) ==
    IF i > Len(str) THEN << >>
    ELSE LET follower == IF i < Len(str) THEN str[i + 1] ELSE rightSquareBracket
             piece == IF str[i] = leftSquareBracket THEN <<backslash, leftSquareBracket>>
                      ELSE IF str[i] = backslash /\ isAsciiPunctuation(follower)
                           THEN <<backslash, backslash>>
                           ELSE <<str[i]>>
         IN  piece \o EscapedFrom(str, i + 1)

\* A text with 4 spaces put before every line but the first that is not empty
RECURSIVE IndentedFrom(_, _)
IndentedFrom(str, i) ==
    IF i > Len(str) THEN << >>
    ELSE LET lineEnds == str[i] = 10 \/ (str[i] = 13 /\ ~(i < Len(str) /\ str[i + 1] = 10))
             lineFollows == i < Len(str) /\ str[i + 1] \notin {10, 13}
         IN  <<str[i]>> \o (IF lineEnds /\ lineFollows THEN Spaces4 ELSE << >>)
               \o IndentedFrom(str, i + 1)

\* The children's texts with the gap between neighbours
RECURSIVE FlowJoined(_, _)
FlowJoined(children, gap) ==
    IF children = << >> THEN << >>
    ELSE IF Len(children) = 1 THEN children[1].out
    ELSE children[1].out \o gap \o FlowJoined(Tail(children), gap)

DefinitionDone == serPc = "done" /\ serNode.type = "footnoteDefinition"

\* C17: a footnoteDefinition is written as [^ + escaped label + ]: , then one
\* space exactly when the node has a child, then the flow-joined children with
\* the first line as it is, every later non-empty line behind exactly 4 spaces,
\* and empty lines without prefix.
C17_DefinitionIsIndentedBy4 ==
    DefinitionDone =>
        /\ output = <<leftSquareBracket, caret>>
                      \o EscapedFrom(association(serNode), 1)
                      \o <<rightSquareBracket, colon>>
                      \o (IF Len(serNode.children) > 0 THEN <<space>> ELSE << >>)
                      \o IndentedFrom(FlowJoined(serNode.children, between(serNode.join)), 1)
        /\ returned.value = output

C17_Witness ==
    /\ DefinitionDone
    /\ serNode.label = <<cha>>
    /\ Len(serNode.children) = 2
    /\ serNode.children[1].out = <<cha, 10, cha>>
    /\ output = <<leftSquareBracket, caret, cha, rightSquareBracket, colon, space,
                  cha, 10, space, space, space, space, cha, 10, 10,
                  space, space, space, space, cha>>

\* C18: the character the peek function of a footnoteReference or footnote
\* returns is the first character of the text the handler writes for the node,
\* and the peek leaves the construct stack and the trackers alone.
C18_PeekIsFirstCharacter ==
    /\ []((serPc = "done" /\ returned.peek # << >>) => returned.peek = <<Head(output)>>)
    /\ [][returned'.peek # returned.peek =>
            UNCHANGED <<constructStack, tracker, flowState, output>>]_vars

C18_Witness ==
    /\ serPc = "done"
    /\ serNode.type = "footnote"
    /\ Len(serNode.children) = 2
    /\ returned.peek = <<caret>>
    /\ Head(output) = caret

C18_ReferenceWitness ==
    /\ serPc = "done"
    /\ serNode.type = "footnoteReference"
    /\ returned.peek = <<leftSquareBracket>>
    /\ Head(output) = leftSquareBracket

\* Where the body of a written definition begins: behind ]: and the space
BodyStart ==
    (CHOOSE i \in 1..(Len(output) - 1) :
        /\ output[i] = rightSquareBracket /\ output[i + 1] = colon
        /\ \A j \in 1..(i - 1) : ~(output[j] = rightSquareBracket /\ output[j + 1] = colon))
    + 1 + (IF Len(serNode.children) > 0 THEN 1 ELSE 0)

\* Index in the output of the first character of child k: the indentation is
\* the only thing in the body that is a space
ChildStart(k) ==
    LET gap == between(serNode.join)
        unindented == BodyStart + Len(FlowJoined(SubSeq(serNode.children, 1, k - 1), gap))
                        + (IF k > 1 THEN Len(gap) ELSE 0) + 1
        kept(i) == i - Cardinality({j \in (BodyStart + 1)..i : output[j] = space})
    IN  CHOOSE i \in 1..Len(output) : output[i] # space /\ kept(i) = unindented

\* 1-based column of the character at index i of a text
ColumnAt(str, i) ==
    LET ends == {j \in 1..(i - 1) : str[j] \in {10, 13}}
    IN  IF ends = {} THEN i ELSE i - (CHOOSE j \in ends : \A h \in ends : h <= j)

OnFirstLine(str, i) == \A j \in 1..(i - 1) : str[j] \notin {10, 13}

\* C20 as stated: the column given to each child is the column of the child's
\* first character in the output of the definition.
C20_ColumnIsColumnInOutput ==
    DefinitionDone =>
        \A k \in 1..Len(serNode.children) :
            flowState.given[k].now.column = ColumnAt(output, ChildStart(k))

\* C20: the column given to each child is the column of the child's first
\* character in the document the output of the definition is put into: the
\* column in the output, moved by the start column of the definition on the
\* first line and by the line shift of the definition on later lines.
C20_ColumnIsColumnInDocument ==
    DefinitionDone =>
        \A k \in 1..Len(serNode.children) :
            flowState.given[k].now.column =
                ColumnAt(output, ChildStart(k))
                  + (IF OnFirstLine(output, ChildStart(k))
                     THEN serNode.info.now.column - 1
                     ELSE serNode.info.lineShift)

C20_Witness ==
    /\ DefinitionDone
    /\ serNode.info.lineShift = 2
    /\ Len(serNode.children) = 2
    /\ flowState.given[1].now.column = 9
    /\ flowState.given[2].now.column = 7
    /\ ColumnAt(output, ChildStart(2)) = 5

\* Top level: the definition starts a line of the document at column 1
C20_TopLevelWitness ==
    /\ DefinitionDone
    /\ serNode.info.lineShift = 0
    /\ Len(serNode.children) = 2
    /\ flowState.given[2].now.column = 5
    /\ ColumnAt(output, ChildStart(2)) = 5

\* Notes among the events
NoteEnters(evs, toks) ==
    {i \in 1..Len(evs) : evs[i].phase = "enter" /\ TypeAt(evs, toks, i) = "inlineNote"}

\* The step of ok that resolves an inline-note end
NoteResolved ==
    Cardinality(NoteEnters(events', tokens')) = Cardinality(NoteEnters(events, tokens)) + 1

\* Tokens of type inlineNoteStart that the events enter
StartTokens(evs, toks) ==
    {evs[i].id : i \in {i \in 1..Len(evs) :
                          evs[i].phase = "enter" /\ TypeAt(evs, toks, i) = "inlineNoteStart"}}

\* C27: an inline-note end is paired with the nearest enter of an
\* inlineNoteStart before it (the starts still in the events are the unmatched
\* ones, so nested notes pair last-in first-out); the events before that start
\* stay as they are, every other start stays, and neither the start token nor
\* the end token is in the events afterwards.
C27_NoteEndTakesNearestStart ==
    [][NoteResolved =>
          LET starts == StartEventsBefore(Len(events))
              open == CHOOSE i \in starts : \A j \in starts : j <= i
              startToken == events[open].id
          IN  /\ starts # {}
              /\ SubSeq(events', 1, open - 1) = SubSeq(events, 1, open - 1)
              /\ events'[open].phase = "enter"
              /\ tokens'[events'[open].id].type = "inlineNote"
              /\ tokens'[events'[open].id].start = tokens[startToken].start
              /\ \A i \in 1..Len(events') : events'[i].id # startToken
              /\ \A i \in 1..Len(events') : tokens'[events'[i].id].type # "inlineNoteEnd"
              /\ StartTokens(events', tokens') = StartTokens(events, tokens) \ {startToken}]_vars

\* ^[^[]]: the second ] has closed the outer note around the inner one
C27_Witness ==
    /\ WholeText = <<caret, leftSquareBracket, caret, leftSquareBracket,
                     rightSquareBracket, rightSquareBracket>>
    /\ Cardinality(NoteEnters(events, tokens)) = 2
    /\ TypeAt(events, tokens, 1) = "inlineNote"
    /\ StartTokens(events, tokens) = {}
    /\ \E i \in 7..Len(events) : i \in NoteEnters(events, tokens)

(***************************************************************************)
(* The code-consumption protocol of the state functions                    *)
(***************************************************************************)
\* A state function of a tokenizer, or ok or nok, is about to be called with
\* `code`
StateFunctionCalled ==
    /\ ~awaiting
    /\ pc \notin {"start", "end", "compile", "containerStart", "continued", "notContinued",
                  "definitionStarted", "document", "flow", "text", "textData", "textEnd"}

\* C28 as stated: a code that a state function has consumed is passed on to no
\* successor state, neither to ok nor to nok: whenever a state function, ok or
\* nok is called, the code it gets is the one not yet consumed.
C28_ConsumedCodeNotPassedOn ==
    StateFunctionCalled => pos = codeIdx

\* Everywhere but behind nonBlank of tokenizeDefinitionStart the protocol is
\* kept, and no step consumes more than the one code it was called with.
C28_OnlyNonBlankPassesConsumedCode ==
    /\ [](StateFunctionCalled =>
            \/ pos = codeIdx
            \/ /\ pc \in {"tokenizeDefinitionStart_done", "ok"}
               /\ pos = codeIdx + 1
               /\ TypeAt(events, tokens, Len(events)) = "footnoteDefinitionWhitespace")
    /\ [][(StateFunctionCalled /\ pos' > pos) => (pos = codeIdx /\ pos' = pos + 1)]_vars

(***************************************************************************)
(* Termination of the label automata (SpecCapFair)                         *)
(***************************************************************************)
\* The attempt on top of the hooks has reached ok or nok.
AttemptDone == LabelAttempt /\ pc \in {"ok", "nok"}

\* Codes consumed after `[^` by the attempt on top of the hooks.
LabelConsumed == pos - LabelBegin

InLabel == LabelAttempt /\ pc \in LabelStates

\* A label state function is called with the end of input.
EofInLabel == InLabel /\ ~awaiting /\ code = Null

\* The label automata consume at most LabelSizeMax + 1 codes of a label, and
\* one more when the code the cap lets through starts an escape.
C29_LabelConsumptionBounded ==
    InLabel =>
        /\ LabelConsumed <= LabelSizeMax + 2
        /\ LabelConsumed = LabelSizeMax + 2 =>
              /\ input[pos - 2] = backslash
              /\ input[pos - 1] \in {leftSquareBracket, backslash, rightSquareBracket}

\* At the end of input a label state function leaves the label only to nok.
C29_EofInLabelRefused ==
    EofInLabel => (pc' = "nok" \/ (InLabel' /\ ~awaiting' /\ code' = Null /\ pos' = pos))

\* The state functions and hooks of an attempt of the two tokenizers.
AttemptStates ==
    LabelStates \cup
    {"tokenizeFootnoteCall", "tokenizeDefinitionStart",
     "tokenizeFootnoteCall_start", "tokenizeFootnoteCall_callStart", "tokenizeFootnoteCall_end",
     "tokenizeDefinitionStart_start", "tokenizeDefinitionStart_labelStart",
     "tokenizeDefinitionStart_labelAfter", "tokenizeDefinitionStart_onBlank",
     "tokenizeDefinitionStart_nonBlank", "tokenizeDefinitionStart_done",
     "tokenizeBlankLine_start", "tokenizeBlankLine_after",
     "factorySpace_start", "factorySpace_prefix", "ok", "nok"}

\* An open attempt is never at rest: it waits for a code the main loop has,
\* or one of its state functions is about to be called.
C29_AttemptRuns ==
    AttemptOpen =>
        IF awaiting THEN pos <= Len(input) \/ SourceCodes # {}
        ELSE pc \in AttemptStates

\* C29. Every attempt of tokenizeFootnoteCall and of tokenizeDefinitionStart
\* reaches ok or nok, on any input; it consumes a number of label codes
\* bounded by the size cap, which a run of line endings, of whitespace or of
\* escapes does not extend; at the end of input inside a label it reaches nok.
C29_LabelAttemptTerminates ==
    /\ [](C29_LabelConsumptionBounded /\ C29_AttemptRuns)
    /\ [][C29_EofInLabelRefused]_vars
    /\ (AttemptOpen ~> AttemptDone)

\* A call whose label is `a` and a run of line endings is refused by the
\* cap, at the line ending after the last one it consumed.
C29_Witness ==
    /\ Reported("nok", "call")
    /\ input[LabelBegin + 1] = lineFeed
    /\ codeIdx - LabelBegin = LabelSizeMax + 1
    /\ input[codeIdx] = lineFeed

(***************************************************************************)
(* The tree builder's stack of open nodes (SpecNest)                       *)
(***************************************************************************)
\* The node an enter handler of the extension makes for a token type; the
\* label strings open a buffer.
OpenedType(type) ==
    CASE type = "footnoteDefinition" -> "footnoteDefinition"
      [] type = "footnoteCall" -> "footnoteReference"
      [] type = "inlineNote" -> "footnote"
      [] OTHER -> "fragment"

LabelStrings == {"footnoteDefinitionLabelString", "footnoteCallString"}

\* The tokens of the extension's handlers that are entered and not yet left
\* after the events 1..upto, outermost first.
RECURSIVE OpenTokens(_, _, _)
OpenTokens(i, upto, open) ==
    IF i > upto THEN open
    ELSE IF ~Handled(i) THEN OpenTokens(i + 1, upto, open)
         ELSE IF events[i].phase = "enter"
              THEN OpenTokens(i + 1, upto, Append(open, events[i].id))
              ELSE OpenTokens(i + 1, upto, SubSeq(open, 1, Len(open) - 1))

Compiling == At("compile") /\ cidx >= 1

\* The handler of an event of the extension is about to run.
Handling(phase) ==
    /\ Compiling /\ cidx <= Len(events)
    /\ CEvent.phase = phase /\ Handled(cidx)

\* The stack mirrors the event stream: one entry for each open token of the
\* extension, of the type its enter handler makes; after the last event it
\* is empty.
C30_StackMirrorsEvents ==
    Compiling =>
        LET open == OpenTokens(1, cidx - 1, << >>)
        IN  /\ Len(stack) = Len(open)
            /\ \A i \in 1..Len(open) : stack[i].type = OpenedType(tokens[open[i]].type)
            /\ cidx > Len(events) => stack = << >>

\* An enter handler pushes one node, or one buffer, and touches nothing else.
C30_EnterPushesOne ==
    Handling("enter") =>
        /\ stack' = Append(stack, Node(OpenedType(CToken.type)))
        /\ tree' = tree

\* The exit handler of a node pops the node its enter pushed, which becomes
\* a child of the node below or, with none below, of the tree.
C30_ExitPopsTheNode ==
    (Handling("exit") /\ CToken.type \notin LabelStrings) =>
        LET node == stack[Len(stack)]
            below == SubSeq(stack, 1, Len(stack) - 1)
        IN  /\ node.type = OpenedType(CToken.type)
            /\ Len(stack') = Len(below)
            /\ \A i \in 1..(Len(below) - 1) : stack'[i] = below[i]
            /\ IF below = << >> THEN tree' = Append(tree, node)
               ELSE /\ tree' = tree
                    /\ stack'[Len(below)] =
                          [below[Len(below)] EXCEPT !.children = Append(@, node)]

\* The exit handler of a label string resumes the buffer its enter started
\* and writes label and identifier to the node then on top, the definition
\* or the reference the label belongs to.
C30_ExitResumesTheBuffer ==
    (Handling("exit") /\ CToken.type \in LabelStrings) =>
        LET buffer == stack[Len(stack)]
            below == SubSeq(stack, 1, Len(stack) - 1)
            node == below[Len(below)]
        IN  /\ buffer.type = "fragment"
            /\ node.type = (IF CToken.type = "footnoteCallString"
                            THEN "footnoteReference" ELSE "footnoteDefinition")
            /\ tree' = tree
            /\ stack' = [below EXCEPT ![Len(below)] =
                            [node EXCEPT !.label = buffer.value,
                                         !.identifier = nodeIdentifier(CToken)]]

\* Label and identifier of a node change only in the exit handler of a label
\* string, and there only on the node on top of the stack; a node that has
\* left the stack keeps them.
C30_LabelWrittenOnTop ==
    /\ \A i \in 1..Len(stack) :
          (/\ i <= Len(stack')
           /\ \/ stack'[i].label # stack[i].label
              \/ stack'[i].identifier # stack[i].identifier)
            => /\ Handling("exit") /\ CToken.type \in LabelStrings
               /\ i = Len(stack')
    /\ Len(tree') >= Len(tree)
    /\ SubSeq(tree', 1, Len(tree)) = tree

\* C30. Tree builder balance: over the resolved events each enter handler of
\* footnoteDefinition, footnoteCall and inlineNote pushes exactly one node
\* and the matching exit handler pops it, each label-string enter starts one
\* buffer that the matching exit resumes, and identifier and label are
\* written only to the node on top of the stack of open nodes.
C30_TreeBuilderBalanced ==
    /\ [](C30_StackMirrorsEvents)
    /\ [][/\ C30_EnterPushesOne
          /\ C30_ExitPopsTheNode
          /\ C30_ExitResumesTheBuffer
          /\ C30_LabelWrittenOnTop]_vars

\* A call inside a note: the reference, with its label written, has been
\* popped into the note, and the note into the tree.
C30_Witness ==
    \E i \in 1..Len(tree) :
        /\ tree[i].type = "footnote"
        /\ Len(tree[i].children) = 1
        /\ tree[i].children[1].type = "footnoteReference"
        /\ tree[i].children[1].identifier = <<cha>>
        /\ tree[i].children[1].label = <<cha>>

(***************************************************************************)
(* Properties of safe (SpecSafe)                                           *)
(***************************************************************************)
\* The patterns of state.unsafe that are in scope
InScope == {k \in 1..Len(unsafe) : patternInScope(constructStack, unsafe[k])}

\* A text in which safe finds nothing to escape: no character of a pattern in
\* scope, and no backslash before ASCII punctuation (the first character of
\* after follows the last character of the text)
NothingToEscape(str) ==
    \A i \in 1..Len(str) :
        /\ \A k \in InScope : unsafe[k].character # str[i]
        /\ str[i] = backslash =>
              LET follower == IF i < Len(str) THEN <<str[i + 1]>>
                              ELSE IF config.after = << >> THEN << >>
                              ELSE <<config.after[1]>>
              IN  follower = << >> \/ ~isAsciiPunctuation(follower[1])

RECURSIVE IsSubsequence(_, _)
IsSubsequence(a, b) ==
    IF a = << >> THEN TRUE
    ELSE IF b = << >> THEN FALSE
    ELSE IF Head(a) = Head(b) THEN IsSubsequence(Tail(a), Tail(b))
    ELSE IsSubsequence(a, Tail(b))

Count(c, str) == Cardinality({i \in 1..Len(str) : str[i] = c})

\* The characters of before and after occur in the output as often as in the
\* input (a backslash may be an escape)
NoContextCharacter ==
    \A c \in {leftSquareBracket, caret, rightSquareBracket} :
        Count(c, returned.value) = Count(c, returned.arg)

\* b is a with nothing but backslashes put in
RECURSIVE OnlyBackslashesAdded(_, _)
OnlyBackslashesAdded(a, b) ==
    IF b = << >> THEN a = << >>
    ELSE \/ a # << >> /\ Head(a) = Head(b) /\ OnlyBackslashesAdded(Tail(a), Tail(b))
         \/ Head(b) = backslash /\ OnlyBackslashesAdded(a, Tail(b))

\* The input with every character of an in-scope pattern that is no ASCII
\* punctuation written as &#x..;
RECURSIVE Referenced(_)
Referenced(str) ==
    IF str = << >> THEN << >>
    ELSE (IF ~isAsciiPunctuation(Head(str)) /\ \E k \in InScope : unsafe[k].character = Head(str)
          THEN <<38, 35, 120>> \o (IF Head(str) = 10 THEN <<65>> ELSE <<Head(str)>>) \o <<59>>
          ELSE <<Head(str)>>)
         \o Referenced(Tail(str))

\* C22 as stated: the input of safe is a subsequence of its output, which holds
\* no character of before or after.
C22_InputIsSubsequence ==
    serPc = "safed" =>
        /\ IsSubsequence(returned.arg, returned.value)
        /\ NoContextCharacter

\* C22: the output of safe is its input with backslashes put in, after every
\* unsafe character that is no ASCII punctuation has been replaced by its
\* character reference; it holds no character of before or after.  With only
\* punctuation unsafe, the input is a subsequence of the output.
C22_OnlyEscapesAdded ==
    serPc = "safed" =>
        /\ OnlyBackslashesAdded(Referenced(returned.arg), returned.value)
        /\ NoContextCharacter
        /\ (\A k \in InScope : isAsciiPunctuation(unsafe[k].character))
              => IsSubsequence(returned.arg, returned.value)

C22_Witness ==
    /\ serPc = "safed"
    /\ config = [before |-> <<leftSquareBracket>>, after |-> <<leftSquareBracket>>]
    /\ constructStack = <<"footnoteReference", "reference">>
    /\ Len(unsafe) = 2
    /\ returned.arg = <<backslash, 10, leftSquareBracket>>
    /\ returned.value = <<backslash, backslash, 38, 35, 120, 65, 59,
                          backslash, leftSquareBracket>>

\* A label inside a footnoteReference: before [^, after ], the [ pattern in scope
ReferenceLabel ==
    /\ config = ReferenceConfig
    /\ constructStack = <<"footnoteReference", "reference">>
    /\ unsafe = footnoteToMarkdownUnsafe
    /\ \A i \in 1..Len(returned.arg) : returned.arg[i] \in {cha, leftSquareBracket, backslash}

\* C24: decodeString of what safe writes for a label over letters, [ and \
\* inside a footnoteReference is the label.
C24_LabelRoundTrip ==
    (serPc = "decoded" /\ ReferenceLabel) => output = returned.arg

C24_Witness ==
    /\ serPc = "decoded" /\ ReferenceLabel
    /\ returned.arg = <<backslash, leftSquareBracket, backslash>>
    /\ returned.value = <<backslash, backslash, backslash, leftSquareBracket, backslash, backslash>>
    /\ output = returned.arg

\* Backslashes that stand immediately before index i of a text
RECURSIVE BackslashesBefore(_, _)
BackslashesBefore(str, i) ==
    IF i > 1 /\ str[i - 1] = backslash THEN 1 + BackslashesBefore(str, i - 1) ELSE 0

LabelOwner == serNode.type \in {"footnoteReference", "footnoteDefinition"}

\* C23: while the label of a footnoteReference or footnoteDefinition is
\* escaped the construct stack holds `reference` (references) or `label`
\* (definitions), the [ pattern is in scope, and every [ of the label text is
\* in the output behind a backslash that escapes it.
C23_LabelBracketsEscaped ==
    /\ (serPc = "label" /\ LabelOwner) =>
          /\ constructStack[Len(constructStack)] =
                (IF serNode.type = "footnoteReference" THEN "reference" ELSE "label")
          /\ \E k \in 1..Len(unsafe) :
                unsafe[k].character = leftSquareBracket
                  /\ patternInScope(constructStack, unsafe[k])
    /\ (serPc = "done" /\ LabelOwner) =>
          /\ \A i \in 3..Len(output) :
                output[i] = leftSquareBracket => BackslashesBefore(output, i) % 2 = 1
          /\ Count(leftSquareBracket, output) = 1 + Count(leftSquareBracket, association(serNode))

C23_Witness ==
    /\ serPc = "done"
    /\ serNode.type = "footnoteReference"
    /\ serNode.label = <<backslash, leftSquareBracket>>
    /\ constructStack = <<"phrasing">>
    /\ output = <<leftSquareBracket, caret, backslash, backslash, backslash,
                  leftSquareBracket, rightSquareBracket>>

\* The definition side, while the label is being escaped
C23_DefinitionWitness ==
    /\ serPc = "label"
    /\ serNode.type = "footnoteDefinition"
    /\ serNode.label = <<leftSquareBracket>>
    /\ constructStack = <<"footnoteDefinition", "label">>

(***************************************************************************)
(* Properties of the plugin lifecycle (SpecPlugin)                         *)
(***************************************************************************)
ActivatedThenDeactivated ==
    /\ Len(calls) >= 2
    /\ calls[Len(calls) - 1].call = "activate"
    /\ calls[Len(calls)].call = "deactivate"

\* C25 as stated: after activate() and then deactivate() the list is what it
\* was before activate().
C25_DeactivateUndoesActivate ==
    ActivatedThenDeactivated => remarkPlugins = calls[Len(calls) - 1].found

\* C26: activate() with a markdown renderer appends exactly one entry, the
\* footnotes plugin paired with {inlineNotes: true}, at the end of
\* remarkPlugins and leaves every earlier entry in place; without a markdown
\* renderer activate() and deactivate() change nothing.
C26_ActivateAppendsOneEntry ==
    [][(calls' # calls) =>
          LET made == calls'[Len(calls')]
          IN  /\ made.found = remarkPlugins
              /\ (made.call = "activate" /\ markdownRenderer) =>
                    /\ Len(remarkPlugins') = Len(remarkPlugins) + 1
                    /\ \A i \in 1..Len(remarkPlugins) : remarkPlugins'[i] = remarkPlugins[i]
                    /\ remarkPlugins'[Len(remarkPlugins')].plugin = "remarkFootnotes"
                    /\ remarkPlugins'[Len(remarkPlugins')].pair
                    /\ remarkPlugins'[Len(remarkPlugins')].options = <<[inlineNotes |-> TRUE]>>
              /\ ~markdownRenderer => remarkPlugins' = remarkPlugins]_vars

C26_Witness ==
    /\ markdownRenderer
    /\ Len(calls) = 1 /\ calls[1].call = "activate"
    /\ Len(calls[1].found) = 2
    /\ Len(remarkPlugins) = 3
    /\ remarkPlugins[3] = footnotesEntry

\* Without a renderer
C26_NoRendererWitness ==
    /\ ~markdownRenderer
    /\ Len(calls) = 2 /\ calls[1].call = "activate" /\ calls[2].call = "deactivate"
    /\ remarkPlugins = calls[1].found

(***************************************************************************)
(* Properties of the position tracker (SpecTrack)                          *)
(***************************************************************************)
\* Line endings of a text, \r\n counted once
LineEndings(str) ==
    Cardinality({i \in 1..Len(str) :
                    \/ str[i] = 10
                    \/ str[i] = 13 /\ ~(i < Len(str) /\ str[i + 1] = 10)})

\* Characters after the last line ending of a text
LastSegment(str) ==
    LET ends == {i \in 1..Len(str) : str[i] \in {10, 13}}
    IN  IF ends = {} THEN Len(str)
        ELSE Len(str) - (CHOOSE i \in ends : \A j \in ends : j <= i)

\* C19: move(text) returns the text unchanged, adds to line the number of line
\* endings of the text (\r\n counted once), and sets column to column +
\* len(text) when the text has no line ending, otherwise to
\* 1 + len(last segment) + lineShift.
C19_MoveAdvancesLineAndColumn ==
    [][(serPc = "track" /\ returned' # NoReturn) =>
          LET str == returned'.arg
          IN  /\ returned'.value = str
              /\ tracker'.line = tracker.line + LineEndings(str)
              /\ tracker'.column = IF LineEndings(str) = 0
                                   THEN tracker.column + Len(str)
                                   ELSE 1 + LastSegment(str) + tracker.lineShift
              /\ tracker'.lineShift = tracker.lineShift]_vars

C19_Witness ==
    /\ serPc = "track"
    /\ returned.arg = <<13, 10, cha>>
    /\ tracker.lineShift = 4
    /\ tracker.column = 6
    /\ tracker.line = 3

(***************************************************************************)
(* C31: the handlers leave the stacks of the host as they found them       *)
(***************************************************************************)
\* The constructs the handler has entered and not exited, by its position
OpenConstructs ==
    IF serPc = "label" /\ serNode.type = "footnoteReference"
    THEN <<"footnoteReference", "reference">>
    ELSE IF serPc = "label" THEN <<"footnoteDefinition", "label">>
    ELSE IF serPc = "containerFlow" THEN <<"footnoteDefinition">>
    ELSE IF serPc = "containerPhrasing" THEN <<"footnote", "label">>
    ELSE << >>

\* The index the container called by the handler has pushed and not popped
OpenIndexes ==
    IF serPc \in {"containerFlow", "containerPhrasing"} THEN <<flowState.index>> ELSE << >>

\* What lies below the handler's own entries
Below(list, own) == SubSeq(list, 1, Len(list) - Len(own))

OnTop(list, own) ==
    /\ Len(list) >= Len(own)
    /\ SubSeq(list, Len(list) - Len(own) + 1, Len(list)) = own

\* C31: footnoteReference, footnote and footnoteDefinition leave the construct
\* stack and the index stack of the host as they found them when they return:
\* at every position the stacks are what the handler found with its own open
\* constructs and the index of its container on top, no step touches what was
\* found, and at the return nothing of its own is left; the constructs are
\* exited in the reverse order of their entering.
C31_StacksRestored ==
    /\ [](OnTop(constructStack, OpenConstructs) /\ OnTop(indexStack, OpenIndexes))
    /\ [][/\ Below(constructStack', OpenConstructs') = Below(constructStack, OpenConstructs)
          /\ Below(indexStack', OpenIndexes') = Below(indexStack, OpenIndexes)]_vars
    /\ [](serPc = "done" => OpenConstructs = << >> /\ OpenIndexes = << >>)

C31_Witness ==
    /\ serPc = "done"
    /\ serNode.type = "footnote"
    /\ flowState.index = 1
    /\ constructStack = <<"phrasing">>
    /\ indexStack = <<1>>

C31_DefinitionWitness ==
    /\ serPc = "done"
    /\ serNode.type = "footnoteDefinition"
    /\ flowState.index = 1
    /\ constructStack = <<"phrasing">>
    /\ indexStack = <<1>>

C31_ReferenceWitness ==
    /\ serPc = "done"
    /\ serNode.type = "footnoteReference"
    /\ constructStack = <<"phrasing">>
    /\ indexStack = <<1>>

(***************************************************************************)
(* C32: moves of a tracker put together                                    *)
(***************************************************************************)
\* The tracker after move(a) and then move(b)
moveTwice(t, a, b) == move(move(t, a).tracker, b).tracker

\* A text cut between a carriage return and the line feed after it
CutsCrLf(a, b) == a # << >> /\ b # << >> /\ a[Len(a)] = 13 /\ b[1] = 10

TrackMoved == serPc = "track" /\ returned' # NoReturn

\* C32: a tracker that does move(a) and then move(b) ends at the same line and
\* column as the same tracker doing move(a + b), for every way of cutting the
\* moved text into a and b.
C32_MovesCompose ==
    [][TrackMoved =>
          LET str == returned'.arg
          IN  \A i \in 0..Len(str) :
                 LET two == moveTwice(tracker, SubSeq(str, 1, i), SubSeq(str, i + 1, Len(str)))
                 IN  two.line = tracker'.line /\ two.column = tracker'.column]_vars

\* What the code keeps of it: the column always composes; the line composes
\* unless the cut falls between a carriage return and a line feed, where the
\* two moves count one line more.
C32_MovesComposeButForCrLf ==
    [][TrackMoved =>
          LET str == returned'.arg
          IN  \A i \in 0..Len(str) :
                 LET a == SubSeq(str, 1, i)
                     b == SubSeq(str, i + 1, Len(str))
                     two == moveTwice(tracker, a, b)
                 IN  /\ two.column = tracker'.column
                     /\ two.lineShift = tracker'.lineShift
                     /\ two.line = tracker'.line + (IF CutsCrLf(a, b) THEN 1 ELSE 0)]_vars

\* move('\r\n') done: one line further; move('\r') and move('\n') would be two
C32_Witness ==
    /\ serPc = "track"
    /\ returned.arg = <<13, 10>>
    /\ output = <<13, 10>>
    /\ tracker.line = 2
    /\ moveTwice(track(NoNode.info), <<13>>, <<10>>).line = 3

(***************************************************************************)
(* C33: shift                                                              *)
(***************************************************************************)
\* The tracker that was made with the same info and has made the same moves,
\* and no shift
UnshiftedAt(moved) == move(track(serNode.info), moved).tracker

Unshifted == UnshiftedAt(output)

\* The sum of the shifts made
Shifted == tracker.lineShift - track(serNode.info).lineShift

HasEol(str) == \E i \in 1..Len(str) : IsEolChar(str[i])

\* C33: shift changes lineShift, by its argument, and nothing else; a move over
\* a line ending leaves the column larger than that of the tracker without
\* shifts by the sum of the shifts made before it, and a move over none keeps
\* the difference; the line and the column stay at 1 or more and the line
\* never gets smaller.
C33_ShiftBiasesColumn ==
    /\ [][tracker'.lineShift # tracker.lineShift =>
            /\ tracker'.lineShift - tracker.lineShift \in ShiftValues
            /\ tracker'.line = tracker.line /\ tracker'.column = tracker.column
            /\ output' = output]_vars
    /\ [][output' # output =>
            tracker'.column - UnshiftedAt(output').column =
              IF HasEol(returned'.arg) THEN Shifted
              ELSE tracker.column - Unshifted.column]_vars
    /\ [](tracker.line >= 1 /\ tracker.column >= 1)
    /\ [][tracker'.line >= tracker.line]_vars

\* Two shifts of one column, a line ending moved over between them and one
\* after them: the column is two more than without the shifts
C33_Witness ==
    /\ serPc = "track"
    /\ serNode.info.lineShift = 2
    /\ output = <<10, cha, 10, cha>>
    /\ tracker.lineShift = 4
    /\ tracker.column = 6
    /\ Unshifted.column = 4

(***************************************************************************)
(* C34: before and after given to the children of a footnote               *)
(***************************************************************************)
InPhrasing == serNode.type = "footnote" /\ serPc \in {"containerPhrasing", "done"}

\* The after a child is to be given: the first character of what the peek of
\* the next child, or without a peek its handler, returns; for the last child
\* the after of the parent
AfterOf(k) ==
    IF k < Len(serNode.children)
    THEN LET next == serNode.children[k + 1]
         IN  IF next.type = "footnoteReference" THEN <<leftSquareBracket>>
             ELSE IF next.type = "footnote" THEN <<caret>>
             ELSE IF next.out = << >> THEN << >> ELSE <<next.out[1]>>
    ELSE <<rightSquareBracket>>

LastOfPrevious(k) ==
    LET previous == serNode.children[k - 1].out
    IN  IF previous = << >> THEN << >> ELSE <<previous[Len(previous)]>>

\* An html child behind a child whose text ends in a line ending
HtmlBehindEol(k) ==
    /\ k > 1
    /\ serNode.children[k].type = "html"
    /\ LastOfPrevious(k) \in {<<10>>, <<13>>}

\* C34 as stated: every child but the last is given as after the first
\* character of the next child's peek, or of its text when it has no peek, the
\* last child the after of the parent; every child but the first is given as
\* before the last character of the text of the child before it.
C34_BeforeIsLastOfPrevious ==
    InPhrasing =>
        \A k \in 1..Len(flowState.given) :
            /\ flowState.given[k].after = AfterOf(k)
            /\ k > 1 => flowState.given[k].before = LastOfPrevious(k)

\* C34: the after is as stated; the before of a child but the first is the
\* last character of the text of the child before it, but for an html child
\* behind a line ending: that is given a space, and the line ending before it
\* is written as a space.
C34_BeforeAndAfter ==
    InPhrasing =>
        \A k \in 1..Len(flowState.given) :
            /\ flowState.given[k].after = AfterOf(k)
            /\ k > 1 =>
                 /\ flowState.given[k].before =
                        IF HtmlBehindEol(k) THEN <<space>> ELSE LastOfPrevious(k)
                 /\ flowState.results[k - 1] =
                        IF HtmlBehindEol(k) THEN replaceFinalEol(serNode.children[k - 1].out)
                        ELSE serNode.children[k - 1].out

\* A text ending in a line feed, then html: the html is given a space
C34_Witness ==
    /\ serPc = "done"
    /\ serNode.type = "footnote"
    /\ serNode.children = <<[type |-> "text", out |-> <<cha, 10>>],
                             [type |-> "html", out |-> <<cha>>]>>
    /\ flowState.given[1].after = <<cha>>
    /\ flowState.given[2].before = <<space>>
    /\ flowState.given[2].after = <<rightSquareBracket>>
    /\ output = <<caret, leftSquareBracket, cha, space, cha, rightSquareBracket>>

\* A text, then a footnote: the text is given the peek of the footnote
C34_PeekWitness ==
    /\ serPc = "done"
    /\ serNode.type = "footnote"
    /\ Len(serNode.children) = 2
    /\ serNode.children[1] = [type |-> "text", out |-> <<cha>>]
    /\ serNode.children[2].type = "footnote"
    /\ flowState.given[1].after = <<caret>>
    /\ flowState.given[2].before = <<cha>>

(***************************************************************************)
(* C35: the character classifiers                                          *)
(***************************************************************************)
Classified ==
    /\ serPc = "class"
    /\ returned.markdownLineEnding # {}
    /\ returned.markdownLineEndingOrSpace # {}
    /\ returned.markdownSpace # {}

\* C35: for every code (null, the virtual codes -5..-1, the characters from 0)
\* markdownLineEndingOrSpace holds exactly when markdownLineEnding or
\* markdownSpace holds, no code is a line ending and a space, and null
\* satisfies none of the three.
C35_ClassifiersAgree ==
    Classified =>
        LET eol == TRUE \in returned.markdownLineEnding
            eolOrSpace == TRUE \in returned.markdownLineEndingOrSpace
            spc == TRUE \in returned.markdownSpace
        IN  /\ eolOrSpace <=> (eol \/ spc)
            /\ ~(eol /\ spc)
            /\ returned.arg = Null => ~eol /\ ~eolOrSpace /\ ~spc

C35_Witness ==
    /\ Classified
    /\ returned.arg = horizontalTab
    /\ returned.markdownLineEnding = {FALSE}
    /\ returned.markdownLineEndingOrSpace = {TRUE}
    /\ returned.markdownSpace = {TRUE}

C35_NullWitness ==
    /\ Classified
    /\ returned.arg = Null
    /\ returned.markdownLineEndingOrSpace = {FALSE}

(***************************************************************************)
(* C36: factorySpace                                                       *)
(***************************************************************************)
InFactorySpace == pc \in {"factorySpace_start", "factorySpace_prefix"}

\* The main loop while factorySpace has the control: it reads the next code or
\* calls the state function, it does not rest.
spaceLoop == InFactorySpace /\ awaiting' = ~awaiting

SpecContFair == SpecCont /\ WF_awaiting(spaceLoop)

\* The token factorySpace has entered
SpaceToken == tokens[tokenStack[Len(tokenStack)]]

\* factorySpace has the control and is called or waits for a code it can get
C36_SpaceRuns ==
    InFactorySpace => (awaiting => pos <= Len(input) \/ SourceCodes # {})

\* start: the token is entered when and only when the code is a space, and
\* nothing is consumed; otherwise ok gets the code at once
C36_StartEnters ==
    At("factorySpace_start") =>
        /\ pos' = pos
        /\ IF markdownSpace(code)
           THEN /\ pc' = "factorySpace_prefix"
                /\ events' = Append(events, [phase |-> "enter", id |-> Len(tokens) + 1])
                /\ tokens'[Len(tokens) + 1].type = sp.type
                /\ tokens'[Len(tokens) + 1].start = pos
           ELSE /\ pc' = sp.ok /\ ~awaiting'
                /\ events' = events /\ tokens' = tokens
                /\ code' = code /\ codeIdx' = pos'

\* prefix: a code consumed is a space and is within the limit, and no token
\* is touched; otherwise the token entered is exited and ok gets the first
\* code not consumed, which is no space unless as many as max - 1 are consumed
C36_PrefixConsumesOrExits ==
    At("factorySpace_prefix") =>
        LET consumed == pos - SpaceToken.start
        IN  IF pc' = "factorySpace_prefix"
            THEN /\ pos' = pos + 1 /\ awaiting'
                 /\ markdownSpace(input[pos])
                 /\ sp.max # 0 => consumed + 1 <= sp.max - 1
                 /\ events' = events /\ tokens' = tokens
            ELSE /\ pc' = sp.ok /\ ~awaiting'
                 /\ pos' = pos
                 /\ code' = code /\ codeIdx' = pos
                 /\ SpaceToken.type = sp.type
                 /\ events' = Append(events, [phase |-> "exit",
                                              id |-> tokenStack[Len(tokenStack)]])
                 /\ tokenStack' = SubSeq(tokenStack, 1, Len(tokenStack) - 1)
                 /\ \A i \in SpaceToken.start..(pos - 1) : markdownSpace(input[i])
                 /\ ~markdownSpace(input[pos]) \/ (sp.max # 0 /\ consumed = sp.max - 1)

\* C36: factorySpace never fails and ends by calling ok with the first code
\* it did not consume; it consumes markdown spaces only, as many as the run
\* has and at most max - 1 when max is given; it enters and exits one token of
\* the given type when the first code is a markdown space and none otherwise.
C36_FactorySpaceEndsInOk ==
    /\ []C36_SpaceRuns
    /\ [][C36_StartEnters /\ C36_PrefixConsumesOrExits]_vars
    /\ [][(InFactorySpace /\ awaiting) => UNCHANGED <<pc, pos, events, tokens>>]_vars
    /\ (InFactorySpace ~> (pc = sp.ok /\ ~awaiting /\ codeIdx = pos))

\* The indent of a continuation line stopped by max: four of five spaces
\* consumed, ok called with the fifth
C36_Witness ==
    /\ At("tokenizeIndent_afterPrefix")
    /\ sp.max = IndentSize + 1
    /\ markdownSpace(code)
    /\ codeIdx = pos
    /\ tokens[events[Len(events)].id].type = "footnoteDefinitionIndent"
    /\ pos - tokens[events[Len(events)].id].start = IndentSize

\* The spaces of a blank line, without max: all consumed
C36_UnboundedWitness ==
    /\ At("tokenizeBlankLine_after")
    /\ sp.max = 0
    /\ code = lineFeed
    /\ tokens[events[Len(events)].id].type = "linePrefix"
    /\ pos - tokens[events[Len(events)].id].start = 2

(***************************************************************************)
(* C37: the blank line check                                               *)
(***************************************************************************)
BlankCheck == frames # << >> /\ Top.construct = "blankLine"

\* The position the check started at
BlankStart == Top.info.pos

EndsLine(c) == c = Null \/ markdownLineEnding(c)

\* The codes from the start of the check up to the next line ending or the
\* end of input, as far as they are read, are markdown spaces
BlankSoFar(upto) == \A i \in BlankStart..upto : markdownSpace(input[i]) \/ EndsLine(input[i])

\* C37: the blank line check reports ok exactly when every code from its start
\* to the next line ending or the end of input is a markdown space (none is
\* fine as well) and nok otherwise; it consumes markdown spaces only, never
\* the line ending.
C37_BlankLineIffOnlySpaces ==
    /\ [](BlankCheck /\ pc \in {"ok", "nok"} =>
            /\ codeIdx = pos
            /\ \A i \in BlankStart..(pos - 1) : markdownSpace(input[i])
            /\ ~markdownSpace(input[pos])
            /\ pc = "ok" <=> EndsLine(input[pos])
            /\ pc = "ok" <=> BlankSoFar(pos))
    /\ [][BlankCheck /\ pos' > pos => pos' = pos + 1 /\ markdownSpace(input[pos])]_vars

\* Two spaces and a line ending: ok, with the line ending not consumed
C37_Witness ==
    /\ Reported("ok", "blankLine")
    /\ pos = BlankStart + 2
    /\ input[pos] = lineFeed
    /\ codeIdx = pos

\* A space and a letter: nok
C37_NokWitness ==
    /\ Reported("nok", "blankLine")
    /\ pos = BlankStart + 1
    /\ input[pos] = cha

\* Nothing before the end of input: ok
C37_EmptyWitness ==
    /\ Reported("ok", "blankLine")
    /\ pos = BlankStart
    /\ input[pos] = Null

(***************************************************************************)
(* C38: splice and Array#splice                                            *)
(***************************************************************************)
\* Array.prototype.splice(start, deleteCount, ...items) of ECMAScript, on
\* integers: the list afterwards
ArraySplice(list, start, deleteCount, items) ==
    LET len == Len(list)
        actualStart == IF start < 0 THEN (IF len + start > 0 THEN len + start ELSE 0)
                       ELSE (IF start < len THEN start ELSE len)
        atLeast0 == IF deleteCount > 0 THEN deleteCount ELSE 0
        actualDeleteCount == IF atLeast0 < len - actualStart THEN atLeast0
                             ELSE len - actualStart
    IN  SubSeq(list, 1, actualStart) \o items
          \o SubSeq(list, actualStart + actualDeleteCount + 1, len)

\* C38: splice leaves the list as the one call of Array#splice with the same
\* start, remove count and items leaves it, for starts and remove counts below
\* 0, within and beyond the list, and for items below, at and above the size
\* of a chunk, which are inserted in chunks, in their order.
C38_SpliceIsArraySplice ==
    serPc = "spliced" =>
        output = ArraySplice(returned.list, returned.start, returned.remove,
                             Items(returned.items))

\* Two chunks and one item put before the last of three, which is removed
C38_Witness ==
    /\ serPc = "spliced"
    /\ returned.list = <<0 - 1, 0 - 2, 0 - 3>>
    /\ returned.start = 0 - 1
    /\ returned.remove = 2
    /\ returned.items = 2 * ChunkSize + 1
    /\ Len(output) = 2 * ChunkSize + 3
    /\ output[2] = 0 - 2
    /\ output[3] = 1
    /\ output[ChunkSize + 3] = ChunkSize + 1
    /\ output[2 * ChunkSize + 3] = 2 * ChunkSize + 1

(***************************************************************************)
(* C39: decodeNumericCharacterReference                                    *)
(***************************************************************************)
\* The codes a reference may not stand for: the C0 controls but HT, LF, FF and
\* CR, DEL and the C1 controls, the surrogates, the noncharacters
Disallowed(n) ==
    \/ n \in 0..8 \/ n = 11 \/ n \in 14..31
    \/ n \in 127..159
    \/ n \in 55296..57343
    \/ n \in 64976..65007
    \/ \E k \in 0..16 : n \in {65536 * k + 65534, 65536 * k + 65535}
    \/ n > 1114111

\* The string of one character with the code point n, in UTF-16 code units
CodePoint(n) ==
    IF n < 65536 THEN <<n>>
    ELSE <<55296 + ((n - 65536) \div 1024), 56320 + ((n - 65536) % 1024)>>

NumericDecoded == serPc = "numericDecoded"

\* C39 as stated: U+FFFD for every disallowed code and every code above
\* 0x10FFFF, and for every other code the character with that code point, with
\* no wrap modulo 2^16 above 0xFFFF.
C39_DecodesToCodePoint ==
    NumericDecoded =>
        output = IF Disallowed(returned.arg) THEN <<65533>> ELSE CodePoint(returned.arg)

\* What the code does: U+FFFD for the disallowed codes, the character for the
\* other codes up to 0xFFFF, and above that the one code unit that is the
\* code modulo 2^16.
C39_DecodesToCodeUnit ==
    NumericDecoded =>
        output = IF Disallowed(returned.arg) THEN <<65533>>
                 ELSE IF returned.arg < 65536 THEN CodePoint(returned.arg)
                 ELSE <<returned.arg % 65536>>

\* U+1F600 decoded: the one code unit U+F600
C39_Witness ==
    /\ NumericDecoded
    /\ returned.arg = 128512
    /\ output = <<62976>>

\* U+10000 decoded: U+0000
C39_NulWitness ==
    /\ NumericDecoded
    /\ returned.arg = 65536
    /\ output = <<0>>

====
